---- MODULE Spec2Model ----
(***************************************************************************)
(* The token pool of src/lib/session-pool.ts (class TokenPool): the         *)
(* insertion-ordered entry map, the pool file, the background health check  *)
(* and the selection operations.                                            *)
(*                                                                          *)
(* Strings that the code inspects character by character (tokens, header    *)
(* values, region codes) are sequences of one-character strings; enumerated *)
(* values (errors, operation names, liveness) are TLA+ strings.             *)
(***************************************************************************)
EXTENDS Integers, Sequences, FiniteSets, TLC

VARIABLES
    cfg,               \* the readonly configuration fields set by the constructor
    entryMap,          \* Map<string, TokenPoolEntry>, in insertion order
    disk,              \* the pool file: missing, unparsable, or a token list
    initialized,       \* TokenPool.initialized
    timerStarted,      \* healthCheckTimer !== null
    initLoading,       \* an init call is awaiting its loadFromDisk
    initLoads,         \* the number of loadFromDisk calls init has made
    timersSet,         \* the number of setInterval calls made so far
    healthChecking,    \* TokenPool.healthChecking
    hcSnapshot,        \* tokens of the running pass's snapshot (`entries`)
    hcQueue,           \* tokens of the running pass's snapshot still to visit
    hcCurrent,         \* the token whose liveness probe is awaited (<<>>: none)
    hcDetached,        \* the awaited entry object is no longer the one in the map
    roundRobinCursor,  \* TokenPool.roundRobinCursor
    last,              \* the operation that completed last, its input and result
    writes,            \* the persistToDisk calls in flight (overlapping callers)
    ops                \* the number of calls of public operations made so far

vars == <<cfg, entryMap, disk, initialized, timerStarted, initLoading, initLoads,
          timersSet, healthChecking, hcSnapshot, hcQueue, hcCurrent, hcDetached,
          roundRobinCursor, last, writes, ops>>

----------------------------------------------------------------------------
\* Bounds of the model.

\* a run makes at most this many calls of public operations; the steps that
\* continue a health-check pass already started are not counted
MaxOps == 3

\* the round-robin cursor a run of the selection-only specification starts
\* with is at most this
MaxCursor == 3

----------------------------------------------------------------------------
\* Strings as character sequences.

Undefined == "undefined"
NoToken == << >>
NoRegion == << >>

Bearer == <<"B", "e", "a", "r", "e", "r">>
Basic == <<"B", "a", "s", "i", "c">>
SP == <<" ">>
Comma == <<",">>

\* String.prototype.toLowerCase over the letters the model's strings use
LowerChar(c) ==
    CASE c = "B" -> "b"
      [] c = "U" -> "u"
      [] c = "S" -> "s"
      [] c = "C" -> "c"
      [] c = "N" -> "n"
      [] OTHER -> c

toLowerCase(s) == [i \in 1..Len(s) |-> LowerChar(s[i])]

IsSpace(c) == c = " "

RECURSIVE trimStart(_)
trimStart(s) ==
    IF s # << >> /\ IsSpace(Head(s)) THEN trimStart(Tail(s)) ELSE s

RECURSIVE trimEnd(_)
trimEnd(s) ==
    IF s # << >> /\ IsSpace(s[Len(s)]) THEN trimEnd(SubSeq(s, 1, Len(s) - 1)) ELSE s

\* String.prototype.trim
trim(s) == trimEnd(trimStart(s))

startsWith(s, p) == Len(s) >= Len(p) /\ SubSeq(s, 1, Len(p)) = p

\* String.prototype.split(","): the pieces between commas, empty ones included
RECURSIVE split(_)
split(s) ==
    IF \A i \in 1..Len(s) : s[i] # ","
    THEN <<s>>
    ELSE LET k == CHOOSE i \in 1..Len(s) :
                      s[i] = "," /\ \A j \in 1..(i - 1) : s[j] # ","
         IN <<SubSeq(s, 1, k - 1)>> \o split(SubSeq(s, k + 1, Len(s)))

\* /^Bearer\s+/i.test(s)
BearerTest(s) ==
    /\ Len(s) >= Len(Bearer) + 1
    /\ toLowerCase(SubSeq(s, 1, Len(Bearer))) = toLowerCase(Bearer)
    /\ IsSpace(s[Len(Bearer) + 1])

\* s.replace(/^Bearer\s+/i, ""), for an s that passes the test
BearerStrip(s) == trimStart(SubSeq(s, Len(Bearer) + 1, Len(s)))

\* an optional string argument: absent (undefined) or a string
Absent == [present |-> FALSE, value |-> << >>]
Str(s) == [present |-> TRUE, value |-> s]

----------------------------------------------------------------------------
\* Regions (core.ts is not part of the sources at hand).

cn == <<"c", "n">>
us == <<"u", "s">>
hk == <<"h", "k">>
jp == <<"j", "p">>
sg == <<"s", "g">>
RegionCodes == {cn, us, hk, jp, sg}

\* parseRegionCode: exactly one of the five codes, case-sensitive, else null
parseRegionCode(x) ==
    IF x.present /\ x.value \in RegionCodes THEN x.value ELSE NoRegion

\* assertTokenWithoutRegionPrefix throws for this token
TokenHasRegionPrefix(token) ==
    \E r \in RegionCodes : startsWith(toLowerCase(token), r \o <<"-">>)

----------------------------------------------------------------------------
\* Pool entries and the entry map.

NoError == "null"
NoDynamic ==
    [present |-> FALSE, imageModels |-> {}, videoModels |-> {},
     capabilityTags |-> {}, updatedAt |-> 0]

\* the entry addTokens stores for one normalized input
NewEntry(token, region, enabled, allowedModels, capabilityTags) ==
    [token |-> token, region |-> region, enabled |-> enabled,
     live |-> Undefined, lastCheckedAt |-> 0, lastError |-> Undefined,
     lastCredit |-> 0, consecutiveFailures |-> 0,
     allowedModels |-> allowedModels, capabilityTags |-> capabilityTags,
     dynamicCapabilities |-> NoDynamic]

MapTokens(m) == {m[i].token : i \in 1..Len(m)}
MapHas(m, token) == token \in MapTokens(m)
MapIndex(m, token) == CHOOSE i \in 1..Len(m) : m[i].token = token
MapGet(m, token) == m[MapIndex(m, token)]

\* Map.prototype.set: replaces the value in place, or appends a new key
MapSet(m, token, entry) ==
    IF MapHas(m, token)
    THEN [m EXCEPT ![MapIndex(m, token)] = entry]
    ELSE Append(m, entry)

\* Map.prototype.delete
MapDelete(m, token) ==
    LET Keep(e) == e.token # token IN SelectSeq(m, Keep)

\* getEntries(false): copies of the entries, in map order
getEntries == entryMap

----------------------------------------------------------------------------
\* Selection.

\* hasLegacyPrefix without its toLowerCase()
hasLegacyPrefix_CaseSensitive(token) ==
    LET normalized == trim(token)
    IN \/ startsWith(normalized, us \o <<"-">>)
       \/ startsWith(normalized, hk \o <<"-">>)
       \/ startsWith(normalized, jp \o <<"-">>)
       \/ startsWith(normalized, sg \o <<"-">>)

\* hasLegacyPrefix
hasLegacyPrefix(token) ==
    LET normalized == toLowerCase(trim(token))
    IN \/ startsWith(normalized, us \o <<"-">>)
       \/ startsWith(normalized, hk \o <<"-">>)
       \/ startsWith(normalized, jp \o <<"-">>)
       \/ startsWith(normalized, sg \o <<"-">>)

\* buildCandidateFromPoolEntry that does not copy the entry's enabled flag
buildCandidateFromPoolEntry_AlwaysEnabled(entry) ==
    [token |-> entry.token, region |-> entry.region,
     allowedModels |-> entry.allowedModels,
     capabilityTags |-> entry.capabilityTags,
     dynamicCapabilities |-> entry.dynamicCapabilities,
     enabled |-> TRUE,
     live |-> entry.live # "false",
     prefixedToken |-> hasLegacyPrefix(entry.token)]

\* the candidate built from a pool entry
buildCandidateFromPoolEntry(entry) ==
    [token |-> entry.token, region |-> entry.region,
     allowedModels |-> entry.allowedModels,
     capabilityTags |-> entry.capabilityTags,
     dynamicCapabilities |-> entry.dynamicCapabilities,
     enabled |-> entry.enabled,
     live |-> entry.live # "false",
     prefixedToken |-> hasLegacyPrefix(entry.token)]

\* buildCandidateFromAuthToken that falls back to the header region for a
\* pool entry without region
buildCandidateFromAuthToken_HeaderRegionFallback(token, xRegion) ==
    IF MapHas(entryMap, token)
    THEN LET candidate == buildCandidateFromPoolEntry(MapGet(entryMap, token))
         IN [candidate EXCEPT !.region = IF @ # NoRegion THEN @ ELSE xRegion]
    ELSE [token |-> token, region |-> xRegion,
          allowedModels |-> {}, capabilityTags |-> {},
          dynamicCapabilities |-> NoDynamic,
          enabled |-> TRUE, live |-> TRUE,
          prefixedToken |-> hasLegacyPrefix(token)]

\* buildCandidateFromAuthToken that synthesizes an ad-hoc candidate that is
\* not live yet
buildCandidateFromAuthToken_AdHocUnchecked(token, xRegion) ==
    IF MapHas(entryMap, token)
    THEN buildCandidateFromPoolEntry(MapGet(entryMap, token))
    ELSE [token |-> token, region |-> xRegion,
          allowedModels |-> {}, capabilityTags |-> {},
          dynamicCapabilities |-> NoDynamic,
          enabled |-> TRUE, live |-> FALSE,
          prefixedToken |-> hasLegacyPrefix(token)]

\* the candidate built from a token of the Authorization header
buildCandidateFromAuthToken(token, xRegion) ==
    IF MapHas(entryMap, token)
    THEN buildCandidateFromPoolEntry(MapGet(entryMap, token))
    ELSE [token |-> token, region |-> xRegion,
          allowedModels |-> {}, capabilityTags |-> {},
          dynamicCapabilities |-> NoDynamic,
          enabled |-> TRUE, live |-> TRUE,
          prefixedToken |-> hasLegacyPrefix(token)]

\* parseAuthorizationTokens that reports a malformed header under a code that
\* is not a RequestTokenError
parseAuthorizationTokens_Mislabelled(authorization) ==
    IF ~authorization.present \/ trim(authorization.value) = << >>
    THEN [tokens |-> << >>, error |-> NoError]
    ELSE IF ~BearerTest(authorization.value)
    THEN [tokens |-> << >>, error |-> "invalid_authorization"]
    ELSE LET parts == split(BearerStrip(authorization.value))
             trimmed == [i \in 1..Len(parts) |-> trim(parts[i])]
             NonEmpty(t) == t # << >>
             tokens == SelectSeq(trimmed, NonEmpty)
         IN IF tokens = << >>
            THEN [tokens |-> << >>, error |-> "empty_authorization_tokens"]
            ELSE [tokens |-> tokens, error |-> NoError]

\* parseAuthorizationTokens
parseAuthorizationTokens(authorization) ==
    IF ~authorization.present \/ trim(authorization.value) = << >>
    THEN [tokens |-> << >>, error |-> NoError]
    ELSE IF ~BearerTest(authorization.value)
    THEN [tokens |-> << >>, error |-> "invalid_authorization_format"]
    ELSE LET parts == split(BearerStrip(authorization.value))
             trimmed == [i \in 1..Len(parts) |-> trim(parts[i])]
             NonEmpty(t) == t # << >>
             tokens == SelectSeq(trimmed, NonEmpty)
         IN IF tokens = << >>
            THEN [tokens |-> << >>, error |-> "empty_authorization_tokens"]
            ELSE [tokens |-> tokens, error |-> NoError]

\* matchesModelAndCapabilities that consults the dynamic model list also for a
\* candidate with a static allow-list
matchesModelAndCapabilities_DynamicAlso(candidate, requestedModel, taskType, requiredCapabilityTags) ==
    /\ candidate.enabled /\ candidate.live
    /\ candidate.region # NoRegion
    /\ candidate.allowedModels # {} => requestedModel \in candidate.allowedModels
    /\ LET dynamicModels ==
               IF taskType = "image"
               THEN candidate.dynamicCapabilities.imageModels
               ELSE candidate.dynamicCapabilities.videoModels
       IN dynamicModels # {} => requestedModel \in dynamicModels
    /\ requiredCapabilityTags \subseteq
           (candidate.capabilityTags \cup candidate.dynamicCapabilities.capabilityTags)

\* matchesModelAndCapabilities that looks for the required tags in the static
\* capabilityTags only
matchesModelAndCapabilities_StaticTags(candidate, requestedModel, taskType, requiredCapabilityTags) ==
    /\ candidate.enabled /\ candidate.live
    /\ candidate.region # NoRegion
    /\ IF candidate.allowedModels # {}
       THEN requestedModel \in candidate.allowedModels
       ELSE LET dynamicModels ==
                    IF taskType = "image"
                    THEN candidate.dynamicCapabilities.imageModels
                    ELSE candidate.dynamicCapabilities.videoModels
            IN dynamicModels # {} => requestedModel \in dynamicModels
    /\ requiredCapabilityTags \subseteq candidate.capabilityTags

\* matchesModelAndCapabilities
matchesModelAndCapabilities(candidate, requestedModel, taskType, requiredCapabilityTags) ==
    /\ candidate.enabled /\ candidate.live
    /\ candidate.region # NoRegion
    /\ IF candidate.allowedModels # {}
       THEN requestedModel \in candidate.allowedModels
       ELSE LET dynamicModels ==
                    IF taskType = "image"
                    THEN candidate.dynamicCapabilities.imageModels
                    ELSE candidate.dynamicCapabilities.videoModels
            IN dynamicModels # {} => requestedModel \in dynamicModels
    /\ requiredCapabilityTags \subseteq
           (candidate.capabilityTags \cup candidate.dynamicCapabilities.capabilityTags)

\* pickCandidate: the candidates the configured strategy can return
pickCandidate(candidates) ==
    IF cfg.pickStrategy = "round_robin"
    THEN {candidates[(roundRobinCursor % Len(candidates)) + 1]}
    ELSE {candidates[i] : i \in 1..Len(candidates)}

Reject(error, region) == [token |-> NoToken, region |-> region, error |-> error]

\* the steps of pickTokenForRequest, each on the values the code computes
ReqRegionCode(req) == parseRegionCode(req.xRegion)

ReqCandidates(req) ==
    LET authTokens == parseAuthorizationTokens(req.authorization).tokens
    IN IF Len(authTokens) > 0
       THEN [i \in 1..Len(authTokens) |->
                buildCandidateFromAuthToken(authTokens[i], ReqRegionCode(req))]
       ELSE [i \in 1..Len(getEntries) |-> buildCandidateFromPoolEntry(getEntries[i])]

\* the region-ready list without the lock on the header region
ReqRegionReady_Unlocked(req) ==
    LET Ready(item) == item.region # NoRegion
    IN SelectSeq(ReqCandidates(req), Ready)

ReqRegionReady(req) ==
    LET xRegionCode == ReqRegionCode(req)
        Locked(item) ==
            item.region = (IF xRegionCode # NoRegion THEN xRegionCode ELSE item.region)
        Ready(item) == item.region # NoRegion
    IN SelectSeq(SelectSeq(ReqCandidates(req), Locked), Ready)

\* the matched list without the model/capability filter
ReqMatched_Unfiltered(req) == ReqRegionReady(req)

ReqMatched(req) ==
    LET Match(item) ==
            matchesModelAndCapabilities(item, req.requestedModel, req.taskType,
                                        req.requiredCapabilityTags)
    IN SelectSeq(ReqRegionReady(req), Match)

\* pickTokenForRequest with the region filter ahead of the legacy-prefix check
pickTokenForRequest_RegionBeforePrefix(req) ==
    LET xRegionCode == ReqRegionCode(req)
        authParseResult == parseAuthorizationTokens(req.authorization)
        validCandidates == ReqCandidates(req)
        Prefixed(item) == item.prefixedToken
        regionReadyCandidates == ReqRegionReady(req)
        matched == ReqMatched(req)
    IN IF /\ req.xRegion.present
          /\ Len(trim(req.xRegion.value)) > 0
          /\ xRegionCode = NoRegion
       THEN {Reject("unsupported_region", NoRegion)}
       ELSE IF authParseResult.error # NoError
       THEN {Reject(authParseResult.error, NoRegion)}
       ELSE IF Len(validCandidates) = 0
       THEN {Reject("no_matching_token", NoRegion)}
       ELSE IF Len(regionReadyCandidates) = 0
       THEN {Reject("missing_region", NoRegion)}
       ELSE IF SelectSeq(validCandidates, Prefixed) # << >>
       THEN {Reject("prefixed_token_not_supported", NoRegion)}
       ELSE IF Len(matched) = 0
       THEN {Reject("no_matching_token",
                    IF xRegionCode # NoRegion THEN xRegionCode
                    ELSE regionReadyCandidates[1].region)}
       ELSE {[token |-> selected.token, region |-> selected.region, error |-> NoError] :
                selected \in pickCandidate(matched)}

\* pickTokenForRequest: the results the call can return in the current state
pickTokenForRequest(req) ==
    LET xRegionCode == ReqRegionCode(req)
        authParseResult == parseAuthorizationTokens(req.authorization)
        validCandidates == ReqCandidates(req)
        Prefixed(item) == item.prefixedToken
        regionReadyCandidates == ReqRegionReady(req)
        matched == ReqMatched(req)
    IN IF /\ req.xRegion.present
          /\ Len(trim(req.xRegion.value)) > 0
          /\ xRegionCode = NoRegion
       THEN {Reject("unsupported_region", NoRegion)}
       ELSE IF authParseResult.error # NoError
       THEN {Reject(authParseResult.error, NoRegion)}
       ELSE IF Len(validCandidates) = 0
       THEN {Reject("no_matching_token", NoRegion)}
       ELSE IF SelectSeq(validCandidates, Prefixed) # << >>
       THEN {Reject("prefixed_token_not_supported", NoRegion)}
       ELSE IF Len(regionReadyCandidates) = 0
       THEN {Reject("missing_region", NoRegion)}
       ELSE IF Len(matched) = 0
       THEN {Reject("no_matching_token",
                    IF xRegionCode # NoRegion THEN xRegionCode
                    ELSE regionReadyCandidates[1].region)}
       ELSE {[token |-> selected.token, region |-> selected.region, error |-> NoError] :
                selected \in pickCandidate(matched)}

\* getAllTokens without the preferLive filter
getAllTokens_IgnoresLive ==
    LET Usable(item) == item.enabled
        entries == SelectSeq(getEntries, Usable)
    IN [i \in 1..Len(entries) |-> entries[i].token]

\* getAllTokens({onlyEnabled: true, preferLive: true})
getAllTokens ==
    LET Usable(item) == item.enabled /\ item.live # "false"
        entries == SelectSeq(getEntries, Usable)
    IN [i \in 1..Len(entries) |-> entries[i].token]

\* pickToken that does not consult the cursor under round_robin
pickToken_FirstAlways ==
    IF ~cfg.enabled THEN {NoToken}
    ELSE LET tokens == getAllTokens
         IN IF Len(tokens) = 0 THEN {NoToken}
            ELSE IF cfg.pickStrategy = "round_robin"
            THEN {tokens[1]}
            ELSE {tokens[i] : i \in 1..Len(tokens)}

\* pickToken: the tokens the call can return (NoToken for null)
pickToken ==
    IF ~cfg.enabled THEN {NoToken}
    ELSE LET tokens == getAllTokens
         IN IF Len(tokens) = 0 THEN {NoToken}
            ELSE IF cfg.pickStrategy = "round_robin"
            THEN {tokens[(roundRobinCursor % Len(tokens)) + 1]}
            ELSE {tokens[i] : i \in 1..Len(tokens)}

\* pickTokenFromAuthorizationDetailed: the results the call can return
pickTokenFromAuthorizationDetailed(authorization) ==
    IF authorization.present
    THEN IF Len(trim(authorization.value)) = 0
         THEN {[token |-> t, error |-> NoError] : t \in pickToken}
         ELSE IF ~BearerTest(authorization.value)
         THEN {[token |-> NoToken, error |-> "invalid_authorization_format"]}
         ELSE LET parts == split(BearerStrip(authorization.value))
                  trimmed == [i \in 1..Len(parts) |-> trim(parts[i])]
                  NonEmpty(t) == t # << >>
                  tokens == SelectSeq(trimmed, NonEmpty)
              IN IF Len(tokens) = 0
                 THEN {[token |-> NoToken, error |-> "empty_authorization_tokens"]}
                 ELSE {[token |-> tokens[i], error |-> NoError] : i \in 1..Len(tokens)}
    ELSE {[token |-> t, error |-> NoError] : t \in pickToken}

----------------------------------------------------------------------------
\* Persistence.

\* persistToDisk: the file holds the current entries
persistedFile == [state |-> "ok", tokens |-> getEntries]

\* Number(raw.consecutiveFailures) || 0: the field holds a number, or the
\* record names under failuresJson the JSON value it holds instead: true
\* converts to 1, false and null to 0, a non-numeric string to NaN
NumberOrZero(raw) ==
    IF "failuresJson" \in DOMAIN raw
    THEN IF raw.failuresJson = "true" THEN 1 ELSE 0
    ELSE raw.consecutiveFailures

\* a load that forgets the lastError field of the record
CoerceRecord_NoLastError(raw) ==
    [token |-> trim(raw.token),
     region |-> parseRegionCode(Str(raw.region)),
     enabled |-> raw.enabled # FALSE,
     live |-> IF raw.live \in {"true", "false"} THEN raw.live ELSE Undefined,
     lastCheckedAt |-> raw.lastCheckedAt,
     lastError |-> Undefined,
     lastCredit |-> raw.lastCredit,
     consecutiveFailures |->
         IF NumberOrZero(raw) > 0 THEN NumberOrZero(raw) ELSE 0,
     allowedModels |-> raw.allowedModels,
     capabilityTags |-> raw.capabilityTags,
     dynamicCapabilities |->
         IF /\ raw.dynamicCapabilities.imageModels = {}
            /\ raw.dynamicCapabilities.videoModels = {}
            /\ raw.dynamicCapabilities.capabilityTags = {}
            /\ raw.dynamicCapabilities.updatedAt = 0
         THEN NoDynamic
         ELSE [raw.dynamicCapabilities EXCEPT !.present = TRUE]]

\* the entry loadFromDisk builds from one record of the file
CoerceRecord(raw) ==
    [token |-> trim(raw.token),
     region |-> parseRegionCode(Str(raw.region)),
     enabled |-> raw.enabled # FALSE,
     live |-> IF raw.live \in {"true", "false"} THEN raw.live ELSE Undefined,
     lastCheckedAt |-> raw.lastCheckedAt,
     lastError |-> raw.lastError,
     lastCredit |-> raw.lastCredit,
     consecutiveFailures |->
         IF NumberOrZero(raw) > 0 THEN NumberOrZero(raw) ELSE 0,
     allowedModels |-> raw.allowedModels,
     capabilityTags |-> raw.capabilityTags,
     dynamicCapabilities |->
         IF /\ raw.dynamicCapabilities.imageModels = {}
            /\ raw.dynamicCapabilities.videoModels = {}
            /\ raw.dynamicCapabilities.capabilityTags = {}
            /\ raw.dynamicCapabilities.updatedAt = 0
         THEN NoDynamic
         ELSE [raw.dynamicCapabilities EXCEPT !.present = TRUE]]

\* the loop of loadFromDisk over the file's records, filling nextMap
RECURSIVE LoadRecords(_, _)
LoadRecords(items, nextMap) ==
    IF items = << >> THEN nextMap
    ELSE LET raw == Head(items)
             token == trim(raw.token)
         IN IF token = << >>
            THEN LoadRecords(Tail(items), nextMap)
            ELSE LoadRecords(Tail(items), MapSet(nextMap, token, CoerceRecord(raw)))

\* loadFromDisk: the entry map and the file it leaves
loadFromDisk ==
    IF disk.state = "missing"
    THEN [map |-> entryMap, file |-> persistedFile]
    ELSE [map |-> LoadRecords(IF disk.state = "ok" THEN disk.tokens ELSE << >>, << >>),
          file |-> disk]

----------------------------------------------------------------------------
\* addTokens and removeTokens.

\* normalizeAddTokens: the normalized inputs, or threw
RECURSIVE normalizeAddTokens(_, _)
normalizeAddTokens(rawTokens, defaultRegion) ==
    IF rawTokens = << >> THEN [threw |-> FALSE, items |-> << >>]
    ELSE LET item == Head(rawTokens)
             token == trim(item.token)
             rest == normalizeAddTokens(Tail(rawTokens), defaultRegion)
             parsedRegion ==
                 parseRegionCode(IF item.region.present /\ item.region.value # << >>
                                 THEN item.region ELSE defaultRegion)
         IN IF token = << >> THEN rest
            ELSE IF item.isString
            THEN IF ~defaultRegion.present
                 THEN [threw |-> TRUE, items |-> << >>]
                 ELSE [threw |-> rest.threw,
                       items |-> <<[token |-> token, region |-> defaultRegion.value,
                                    enabled |-> "true", allowedModels |-> {},
                                    capabilityTags |-> {}]>> \o rest.items]
            ELSE IF parsedRegion = NoRegion
            THEN [threw |-> TRUE, items |-> << >>]
            ELSE [threw |-> rest.threw,
                  items |-> <<[token |-> token, region |-> parsedRegion,
                               enabled |-> item.enabled,
                               allowedModels |-> item.allowedModels,
                               capabilityTags |-> item.capabilityTags]>> \o rest.items]

\* the loop of addTokens over the normalized inputs
RECURSIVE AddLoop(_, _, _)

\* the loop of addTokens without the entryMap.has(token) test
AddLoop_Overwrites(map, normalized, added) ==
    IF normalized = << >> THEN [map |-> map, added |-> added, threw |-> FALSE]
    ELSE LET tokenInput == Head(normalized)
             token == tokenInput.token
         IN IF TokenHasRegionPrefix(token)
            THEN [map |-> map, added |-> added, threw |-> TRUE]
            ELSE AddLoop(MapSet(map, token,
                                NewEntry(token, tokenInput.region,
                                         tokenInput.enabled # "false",
                                         tokenInput.allowedModels,
                                         tokenInput.capabilityTags)),
                         Tail(normalized), added + 1)

\* the loop of addTokens without the assertTokenWithoutRegionPrefix call
AddLoop_NoAssert(map, normalized, added) ==
    IF normalized = << >> THEN [map |-> map, added |-> added, threw |-> FALSE]
    ELSE LET tokenInput == Head(normalized)
             token == tokenInput.token
         IN IF MapHas(map, token) THEN AddLoop(map, Tail(normalized), added)
            ELSE AddLoop(MapSet(map, token,
                                NewEntry(token, tokenInput.region,
                                         tokenInput.enabled # "false",
                                         tokenInput.allowedModels,
                                         tokenInput.capabilityTags)),
                         Tail(normalized), added + 1)

AddLoop(map, normalized, added) ==
    IF normalized = << >> THEN [map |-> map, added |-> added, threw |-> FALSE]
    ELSE LET tokenInput == Head(normalized)
             token == tokenInput.token
         IN IF MapHas(map, token) THEN AddLoop(map, Tail(normalized), added)
            ELSE IF TokenHasRegionPrefix(token)
            THEN [map |-> map, added |-> added, threw |-> TRUE]
            ELSE AddLoop(MapSet(map, token,
                                NewEntry(token, tokenInput.region,
                                         tokenInput.enabled # "false",
                                         tokenInput.allowedModels,
                                         tokenInput.capabilityTags)),
                         Tail(normalized), added + 1)

\* the loop of removeTokens
RECURSIVE RemoveLoop(_, _, _)

\* the loop of removeTokens counting a known token without deleting it
RemoveLoop_KeepsEntries(map, tokens, removed) ==
    IF tokens = << >> THEN [map |-> map, removed |-> removed]
    ELSE IF MapHas(map, Head(tokens))
    THEN RemoveLoop(map, Tail(tokens), removed + 1)
    ELSE RemoveLoop(map, Tail(tokens), removed)

RemoveLoop(map, tokens, removed) ==
    IF tokens = << >> THEN [map |-> map, removed |-> removed]
    ELSE IF MapHas(map, Head(tokens))
    THEN RemoveLoop(MapDelete(map, Head(tokens)), Tail(tokens), removed + 1)
    ELSE RemoveLoop(map, Tail(tokens), removed)

----------------------------------------------------------------------------
\* The health-check pass.

\* Date.now(), abstracted to one timestamp (0 stands for "never")
Timestamp == 1

\* the synchronous part of the loop of runHealthCheck: visits the snapshot's
\* entries in order until one needs its liveness probe awaited (current), or
\* the snapshot is exhausted
RECURSIVE AdvancePass(_, _)

\* a pass that does not look at the enabled flag again when an entry's turn
\* comes
AdvancePass_VisitsDisabled(map, queue) ==
    IF queue = << >>
    THEN [map |-> map, queue |-> << >>, current |-> NoToken]
    ELSE LET token == Head(queue)
         IN IF ~MapHas(map, token)
            THEN AdvancePass(map, Tail(queue))
            ELSE LET current == MapGet(map, token)
                 IN IF current.region = NoRegion
                    THEN AdvancePass(
                             MapSet(map, token,
                                    [current EXCEPT
                                        !.live = "false",
                                        !.lastError = "missing_region",
                                        !.consecutiveFailures = @ + 1]),
                             Tail(queue))
                    ELSE [map |-> MapSet(map, token,
                                         [current EXCEPT !.lastCheckedAt = Timestamp]),
                          queue |-> Tail(queue), current |-> token]

\* a pass that does not test the region before it awaits the liveness probe
AdvancePass_NoRegionTest(map, queue) ==
    IF queue = << >>
    THEN [map |-> map, queue |-> << >>, current |-> NoToken]
    ELSE LET token == Head(queue)
         IN IF ~MapHas(map, token) \/ ~MapGet(map, token).enabled
            THEN AdvancePass(map, Tail(queue))
            ELSE [map |-> MapSet(map, token,
                                 [MapGet(map, token) EXCEPT !.lastCheckedAt = Timestamp]),
                  queue |-> Tail(queue), current |-> token]

\* a pass that does not move past the entry whose probe it awaits
AdvancePass_Revisits(map, queue) ==
    IF queue = << >>
    THEN [map |-> map, queue |-> << >>, current |-> NoToken]
    ELSE LET token == Head(queue)
         IN IF ~MapHas(map, token) \/ ~MapGet(map, token).enabled
            THEN AdvancePass(map, Tail(queue))
            ELSE LET current == MapGet(map, token)
                 IN IF current.region = NoRegion
                    THEN AdvancePass(
                             MapSet(map, token,
                                    [current EXCEPT
                                        !.live = "false",
                                        !.lastError = "missing_region",
                                        !.consecutiveFailures = @ + 1]),
                             Tail(queue))
                    ELSE [map |-> MapSet(map, token,
                                         [current EXCEPT !.lastCheckedAt = Timestamp]),
                          queue |-> queue, current |-> token]

AdvancePass(map, queue) ==
    IF queue = << >>
    THEN [map |-> map, queue |-> << >>, current |-> NoToken]
    ELSE LET token == Head(queue)
         IN IF ~MapHas(map, token) \/ ~MapGet(map, token).enabled
            THEN AdvancePass(map, Tail(queue))
            ELSE LET current == MapGet(map, token)
                 IN IF current.region = NoRegion
                    THEN AdvancePass(
                             MapSet(map, token,
                                    [current EXCEPT
                                        !.live = "false",
                                        !.lastError = "missing_region",
                                        !.consecutiveFailures = @ + 1]),
                             Tail(queue))
                    ELSE [map |-> MapSet(map, token,
                                         [current EXCEPT !.lastCheckedAt = Timestamp]),
                          queue |-> Tail(queue), current |-> token]

\* what the collaborators can answer for one probed entry
ProbeOutcomes == {"live", "not_live", "throws"}
RefreshOutcomes == {"fresh", "refreshed", "fails"}
CreditOutcomes == {"ok", "fails"}

\* refreshDynamicCapabilitiesIfNeeded
refreshDynamicCapabilitiesIfNeeded(item, refresh) ==
    IF refresh = "fresh" THEN item
    ELSE IF refresh = "fails"
    THEN [item EXCEPT !.lastError = "dynamic_capability_refresh_failed"]
    ELSE [item EXCEPT !.dynamicCapabilities =
             [present |-> TRUE, imageModels |-> {"m2"}, videoModels |-> {},
              capabilityTags |-> {"omni_reference"}, updatedAt |-> Timestamp]]

\* the auto-disable step that ends the visit of a probed entry
AutoDisable(current) ==
    IF cfg.autoDisableEnabled /\ current.consecutiveFailures >= cfg.autoDisableFailures
    THEN [current EXCEPT !.enabled = FALSE, !.live = "false"]
    ELSE current

\* a visit that leaves the failure counter alone when the probe answers live
AfterProbe_KeepsCounter(current, probe, refresh, credit) ==
    AutoDisable(
        IF probe = "live"
        THEN [current EXCEPT !.live = "true", !.lastError = Undefined]
        ELSE [current EXCEPT !.live = "false", !.lastError = "token_not_live",
                             !.consecutiveFailures = @ + 1])

\* a visit that enables the entry again when its probe answers live
AfterProbe_Recovers(current, probe, refresh, credit) ==
    IF probe = "live"
    THEN [current EXCEPT !.enabled = TRUE, !.live = "true", !.lastError = Undefined,
                         !.consecutiveFailures = 0]
    ELSE AutoDisable([current EXCEPT !.live = "false", !.lastError = "token_not_live",
                                     !.consecutiveFailures = @ + 1])

\* the visit of a probed entry from the probe's answer on
AfterProbe(current, probe, refresh, credit) ==
    AutoDisable(
        IF probe = "live"
        THEN LET refreshed ==
                     refreshDynamicCapabilitiesIfNeeded(
                         [current EXCEPT !.live = "true", !.lastError = Undefined,
                                         !.consecutiveFailures = 0],
                         refresh)
             IN IF ~cfg.fetchCreditOnCheck THEN refreshed
                ELSE IF credit = "ok" THEN [refreshed EXCEPT !.lastCredit = 1]
                ELSE [refreshed EXCEPT !.lastError = "credit_check_failed"]
        ELSE IF probe = "not_live"
        THEN [current EXCEPT !.live = "false", !.lastError = "token_not_live",
                             !.consecutiveFailures = @ + 1]
        ELSE [current EXCEPT !.live = "false", !.lastError = "probe_error",
                             !.consecutiveFailures = @ + 1])

----------------------------------------------------------------------------
\* Configurations, files and inputs the model draws from.

DefaultIntervalMs == 600000
DefaultAutoDisableFailures == 2

Configs ==
    { [enabled |-> TRUE, healthCheckIntervalMs |-> DefaultIntervalMs,
       fetchCreditOnCheck |-> TRUE, autoDisableEnabled |-> TRUE,
       autoDisableFailures |-> 1, pickStrategy |-> "round_robin"],
      [enabled |-> TRUE, healthCheckIntervalMs |-> 0,
       fetchCreditOnCheck |-> FALSE, autoDisableEnabled |-> FALSE,
       autoDisableFailures |-> DefaultAutoDisableFailures, pickStrategy |-> "random"],
      [enabled |-> FALSE, healthCheckIntervalMs |-> DefaultIntervalMs,
       fetchCreditOnCheck |-> FALSE, autoDisableEnabled |-> TRUE,
       autoDisableFailures |-> DefaultAutoDisableFailures, pickStrategy |-> "random"] }

TokA == <<"a">>
TokC == <<"c">>
TokUS == <<"U", "S", "-", "x">>
TokCN == <<"c", "n", "-", "x">>
TokD == <<"d">>

\* a record of a pool file
FileRecord(token, region, enabled, live, failures) ==
    [token |-> token, region |-> region, enabled |-> enabled, live |-> live,
     lastCheckedAt |-> 0, lastError |-> Undefined, lastCredit |-> 0,
     consecutiveFailures |-> failures, allowedModels |-> {}, capabilityTags |-> {},
     dynamicCapabilities |-> NoDynamic]

\* the pool files a process can start with
InitialFiles ==
    { [state |-> "missing", tokens |-> << >>],
      [state |-> "corrupt", tokens |-> << >>],
      [state |-> "ok",
       tokens |-> << FileRecord(TokUS, jp, FALSE, "false", 2),
                     FileRecord(SP \o TokC, <<"x", "x">>, TRUE, "yes", -1),
                     FileRecord(SP, us, TRUE, "true", 0),
                     FileRecord(TokUS \o SP, us, TRUE, "true", 0) >>] }

StringItem(token) ==
    [isString |-> TRUE, token |-> token, region |-> Absent, enabled |-> Undefined,
     allowedModels |-> {}, capabilityTags |-> {}]
ObjectItem(token, region, enabled, allowedModels, capabilityTags) ==
    [isString |-> FALSE, token |-> token, region |-> region, enabled |-> enabled,
     allowedModels |-> allowedModels, capabilityTags |-> capabilityTags]

AddRequests ==
    { [rawTokens |-> <<StringItem(t)>>, defaultRegion |-> Str(us)] :
          t \in {TokA, TokUS, TokCN} }
    \cup
    { [rawTokens |-> <<ObjectItem(TokA \o SP, Str(jp), "false", {"m2"}, {"omni_reference"})>>,
       defaultRegion |-> Absent],
      [rawTokens |-> <<ObjectItem(TokA, Absent, Undefined, {"m1"}, {})>>,
       defaultRegion |-> Str(us)],
      [rawTokens |-> <<StringItem(TokA), StringItem(TokUS)>>, defaultRegion |-> Str(jp)],
      [rawTokens |-> <<StringItem(TokA)>>, defaultRegion |-> Absent] }

RemoveRequests == { <<TokA>>, <<TokUS>>, <<TokCN>>, <<TokA \o SP, TokUS>> }

PoolTokens == {TokA, TokUS, TokC}


\* the Authorization values pickTokenFromAuthorization is called with
AuthHeaders ==
    { Absent,
      Str(SP),
      Str(Basic \o SP \o TokA),
      Str(Bearer \o SP \o Comma),
      Str(Bearer \o SP \o TokA),
      Str(<<"b">> \o Tail(Bearer) \o SP \o SP \o TokC \o SP \o Comma \o TokA) }

Request(authorization, xRegion, requestedModel, taskType, requiredCapabilityTags) ==
    [authorization |-> authorization, xRegion |-> xRegion,
     requestedModel |-> requestedModel, taskType |-> taskType,
     requiredCapabilityTags |-> requiredCapabilityTags]

\* the requests pickTokenForRequest is called with
Requests ==
    { Request(Absent, x, "m1", "image", {}) :
          x \in {Absent, Str(us), Str(jp), Str(SP)} }
    \cup
    { Request(Absent, Absent, "m2", "video", {"omni_reference"}),
      Request(Str(Bearer \o SP \o TokA), Absent, "m1", "image", {}),
      Request(Str(Bearer \o SP \o TokA), Str(us), "m2", "image", {}),
      Request(Str(Bearer \o SP \o TokA), Str(jp), "m2", "video", {"omni_reference"}),
      Request(Str(Bearer \o SP \o TokC), Absent, "m1", "image", {}),
      Request(Str(Bearer \o SP \o TokC), Str(us), "m1", "image", {}),
      Request(Str(<<"b">> \o Tail(Bearer) \o SP \o SP \o TokC \o SP \o Comma \o TokA),
              Str(us), "m1", "image", {}),
      Request(Str(Basic \o SP \o TokA), Absent, "m1", "image", {}),
      Request(Str(Basic \o SP \o TokA), Str(<<"x", "x">>), "m1", "image", {}),
      Request(Str(Bearer \o SP \o Comma), Str(jp), "m1", "image", {}),
      Request(Str(Bearer \o SP \o TokUS \o Comma \o TokC), Str(jp), "m1", "image", {}),
      Request(Str(Bearer \o SP \o TokCN), Str(us), "m1", "image", {}),
      Request(Str(Bearer \o SP \o TokUS), Absent, "m1", "image", {}) }

----------------------------------------------------------------------------
\* State.

\* the entry a setTokenEnabled or syncTokenCheckResult call found for its
\* token, as it was when the call was made
NoEntry == << >>

\* no persistToDisk call is in flight: none awaits ensureDir, none is writing
NoWrites == [waiting |-> 0, flying |-> {}]

\* the operation called just before a removeTokens call, when it was addTokens
NoPrev == [op |-> "none", arg |-> << >>, res |-> << >>, tokensBefore |-> {}]

\* the results of the selections that immediately precede a selection and
\* are the same call (same operation, same input), latest first, two at most
SamePicksBefore(op, arg) ==
    IF last.op = op /\ last.arg = arg
    THEN IF last.earlier = << >> THEN <<last.res>>
         ELSE <<last.res, last.earlier[1]>>
    ELSE << >>

\* the record of a completed operation: its name, input and result, and the
\* tokens the pool held when it was called
Done(op, arg, res) ==
    [op |-> op, arg |-> arg, res |-> res, tokensBefore |-> MapTokens(entryMap),
     prev |-> NoPrev, before |-> NoEntry, earlier |-> << >>]

Init ==
    /\ cfg \in Configs
    /\ entryMap = << >>
    /\ disk \in InitialFiles
    /\ initialized = FALSE
    /\ timerStarted = FALSE
    /\ initLoading = FALSE
    /\ initLoads = 0
    /\ timersSet = 0
    /\ healthChecking = FALSE
    /\ hcSnapshot = << >>
    /\ hcQueue = << >>
    /\ hcCurrent = NoToken
    /\ hcDetached = FALSE
    /\ roundRobinCursor = 0
    /\ last = [op |-> "constructor", arg |-> << >>, res |-> << >>,
               tokensBefore |-> {}, prev |-> NoPrev, before |-> NoEntry,
               earlier |-> << >>]
    /\ writes = NoWrites
    /\ ops = 0

----------------------------------------------------------------------------
\* Operations.

hcVars == <<healthChecking, hcSnapshot, hcQueue, hcCurrent, hcDetached>>

initVars == <<initialized, timerStarted, initLoading, initLoads, timersSet>>

\* a call of a public operation counts against the budget of the run
Counted == ops < MaxOps /\ ops' = ops + 1

\* a load that replaces the map's entry objects detaches the awaited one
LoadDetaches ==
    hcDetached \/ (hcCurrent # NoToken /\ disk.state # "missing")

\* startHealthCheckLoop(): the timer field and the setInterval calls it leaves
startHealthCheckLoop ==
    IF ~cfg.enabled \/ cfg.healthCheckIntervalMs <= 0
    THEN [timer |-> timerStarted, set |-> timersSet]
    ELSE [timer |-> TRUE, set |-> timersSet + 1]

\* an init that does not test the initialized flag
InitPool_NoGuard ==
    /\ Counted
    /\ UNCHANGED <<cfg, writes, entryMap, disk, timerStarted, timersSet, hcVars, roundRobinCursor>>
    /\ initialized' = TRUE
    /\ IF ~cfg.enabled
       THEN /\ UNCHANGED <<initLoading, initLoads>>
            /\ last' = Done("init", << >>, "disabled")
       ELSE /\ initLoading' = TRUE
            /\ initLoads' = initLoads + 1
            /\ last' = Done("init", << >>, "loading")

\* init(), up to its await of loadFromDisk
InitPool ==
    /\ Counted
    /\ UNCHANGED <<cfg, writes, entryMap, disk, timerStarted, timersSet, hcVars, roundRobinCursor>>
    /\ IF initialized
       THEN /\ UNCHANGED <<initialized, initLoading, initLoads>>
            /\ last' = Done("init", << >>, "already")
       ELSE /\ initialized' = TRUE
            /\ IF ~cfg.enabled
               THEN /\ UNCHANGED <<initLoading, initLoads>>
                    /\ last' = Done("init", << >>, "disabled")
               ELSE /\ initLoading' = TRUE
                    /\ initLoads' = initLoads + 1
                    /\ last' = Done("init", << >>, "loading")

\* init(), from the return of loadFromDisk to its end
InitLoadReturns ==
    /\ initLoading
    /\ initLoading' = FALSE
    /\ entryMap' = loadFromDisk.map
    /\ disk' = loadFromDisk.file
    /\ hcDetached' = LoadDetaches
    /\ timerStarted' = startHealthCheckLoop.timer
    /\ timersSet' = startHealthCheckLoop.set
    /\ last' = Done("init", << >>, "loaded")
    /\ UNCHANGED <<cfg, writes, initialized, initLoads, healthChecking, hcSnapshot,
                   hcQueue, hcCurrent,
                   roundRobinCursor, ops>>

\* reloadFromDisk()
ReloadFromDisk ==
    /\ Counted
    /\ entryMap' = loadFromDisk.map
    /\ disk' = loadFromDisk.file
    /\ hcDetached' = LoadDetaches
    /\ last' = Done("reloadFromDisk", << >>, "loaded")
    /\ UNCHANGED <<cfg, writes, initVars, healthChecking, hcSnapshot,
                   hcQueue, hcCurrent,
                   roundRobinCursor>>

\* addTokens(rawTokens, {defaultRegion})
AddTokens(req) ==
    LET normalized == normalizeAddTokens(req.rawTokens, req.defaultRegion)
        loop == AddLoop(entryMap, normalized.items, 0)
    IN /\ Counted
       /\ UNCHANGED <<cfg, writes, initVars, hcVars, roundRobinCursor>>
       /\ IF ~cfg.enabled
          THEN /\ UNCHANGED <<entryMap, disk>>
               /\ last' = Done("addTokens", req, [threw |-> FALSE, added |-> 0, total |-> 0])
          ELSE IF normalized.threw
          THEN /\ UNCHANGED <<entryMap, disk>>
               /\ last' = Done("addTokens", req, [threw |-> TRUE, added |-> 0, total |-> 0])
          ELSE /\ entryMap' = loop.map
               /\ disk' = IF ~loop.threw /\ loop.added > 0
                          THEN [state |-> "ok", tokens |-> loop.map]
                          ELSE disk
               /\ last' = Done("addTokens", req,
                               [threw |-> loop.threw, added |-> loop.added,
                                total |-> Len(loop.map)])

\* removeTokens(rawTokens)
RemoveTokens(rawTokens) ==
    LET trimmed == [i \in 1..Len(rawTokens) |-> trim(rawTokens[i])]
        NonEmpty(t) == t # << >>
        tokens == SelectSeq(trimmed, NonEmpty)
        loop == RemoveLoop(entryMap, tokens, 0)
        prev == IF last.op = "addTokens"
                THEN [op |-> last.op, arg |-> last.arg, res |-> last.res,
                      tokensBefore |-> last.tokensBefore]
                ELSE NoPrev
    IN /\ Counted
       /\ UNCHANGED <<cfg, writes, initVars, healthChecking, hcSnapshot,
                   hcQueue, hcCurrent,
                      roundRobinCursor>>
       /\ IF ~cfg.enabled
          THEN /\ UNCHANGED <<entryMap, disk, hcDetached>>
               /\ last' = [Done("removeTokens", rawTokens, [removed |-> 0, total |-> 0])
                              EXCEPT !.prev = prev]
          ELSE /\ entryMap' = loop.map
               /\ disk' = IF loop.removed > 0
                          THEN [state |-> "ok", tokens |-> loop.map]
                          ELSE disk
               /\ hcDetached' = (hcDetached \/
                                 (hcCurrent # NoToken /\ ~MapHas(loop.map, hcCurrent)))
               /\ last' = [Done("removeTokens", rawTokens,
                                [removed |-> loop.removed, total |-> Len(loop.map)])
                              EXCEPT !.prev = prev]

\* setTokenEnabled(token, enabled)
SetTokenEnabled(token, enabled) ==
    /\ Counted
    /\ UNCHANGED <<cfg, writes, initVars, hcVars, roundRobinCursor>>
    /\ IF ~cfg.enabled \/ ~MapHas(entryMap, token)
       THEN /\ UNCHANGED <<entryMap, disk>>
            /\ last' = Done("setTokenEnabled", <<token, enabled>>, FALSE)
       ELSE LET item == MapGet(entryMap, token)
                map == MapSet(entryMap, token,
                              [item EXCEPT !.enabled = enabled,
                                           !.live = IF enabled THEN @ ELSE "false"])
            IN /\ entryMap' = map
               /\ disk' = [state |-> "ok", tokens |-> map]
               /\ last' = [Done("setTokenEnabled", <<token, enabled>>, TRUE)
                              EXCEPT !.before = item]

\* syncTokenCheckResult that records a live result without recovering the
\* entry from auto-disable
SyncedEntry_NoRecover(item, live) ==
    LET failures == item.consecutiveFailures + 1
    IN IF live
       THEN [item EXCEPT !.lastCheckedAt = Timestamp, !.live = "true",
                         !.lastError = Undefined]
       ELSE [item EXCEPT !.lastCheckedAt = Timestamp, !.live = "false",
                         !.consecutiveFailures = failures,
                         !.lastError = "token_not_live",
                         !.enabled =
                             IF /\ cfg.autoDisableEnabled
                                /\ failures >= cfg.autoDisableFailures
                             THEN FALSE ELSE @]

\* the entry syncTokenCheckResult leaves for the one it found
SyncedEntry(item, live) ==
    LET failures == item.consecutiveFailures + 1
    IN IF live
       THEN [item EXCEPT !.lastCheckedAt = Timestamp, !.live = "true",
                         !.enabled = TRUE, !.consecutiveFailures = 0,
                         !.lastError = Undefined]
       ELSE [item EXCEPT !.lastCheckedAt = Timestamp, !.live = "false",
                         !.consecutiveFailures = failures,
                         !.lastError = "token_not_live",
                         !.enabled =
                             IF /\ cfg.autoDisableEnabled
                                /\ failures >= cfg.autoDisableFailures
                             THEN FALSE ELSE @]

\* syncTokenCheckResult(token, live)
SyncTokenCheckResult(token, live) ==
    /\ Counted
    /\ UNCHANGED <<cfg, writes, initVars, hcVars, roundRobinCursor>>
    /\ IF ~cfg.enabled \/ ~MapHas(entryMap, token)
       THEN /\ UNCHANGED <<entryMap, disk>>
            /\ last' = Done("syncTokenCheckResult", <<token, live>>, FALSE)
       ELSE LET item == MapGet(entryMap, token)
                map == MapSet(entryMap, token, SyncedEntry(item, live))
            IN /\ entryMap' = map
               /\ disk' = [state |-> "ok", tokens |-> map]
               /\ last' = [Done("syncTokenCheckResult", <<token, live>>, TRUE)
                              EXCEPT !.before = item]

\* runHealthCheck() without the test of the in-progress flag
RunHealthCheck_NoGuard ==
    /\ Counted
    /\ UNCHANGED <<cfg, writes, disk, initVars, roundRobinCursor>>
    /\ IF ~cfg.enabled
       THEN /\ UNCHANGED <<entryMap, hcVars>>
            /\ last' = Done("runHealthCheck", << >>, "zero")
       ELSE LET Enabled(item) == item.enabled
                entries == SelectSeq(getEntries, Enabled)
                snapshot == [i \in 1..Len(entries) |-> entries[i].token]
                pass == AdvancePass(entryMap, snapshot)
            IN /\ healthChecking' = TRUE
               /\ entryMap' = pass.map
               /\ hcSnapshot' = snapshot
               /\ hcQueue' = pass.queue
               /\ hcCurrent' = pass.current
               /\ hcDetached' = FALSE
               /\ last' = Done("runHealthCheck", << >>, "started")

\* runHealthCheck(): the call, up to its first await
RunHealthCheck ==
    /\ Counted
    /\ UNCHANGED <<cfg, writes, disk, initVars, roundRobinCursor>>
    /\ IF ~cfg.enabled \/ healthChecking
       THEN /\ UNCHANGED <<entryMap, hcVars>>
            /\ last' = Done("runHealthCheck", << >>, "zero")
       ELSE LET Enabled(item) == item.enabled
                entries == SelectSeq(getEntries, Enabled)
                snapshot == [i \in 1..Len(entries) |-> entries[i].token]
                pass == AdvancePass(entryMap, snapshot)
            IN /\ healthChecking' = TRUE
               /\ entryMap' = pass.map
               /\ hcSnapshot' = snapshot
               /\ hcQueue' = pass.queue
               /\ hcCurrent' = pass.current
               /\ hcDetached' = FALSE
               /\ last' = Done("runHealthCheck", << >>, "started")

\* the answers the collaborators can give for the awaited entry: a failed
\* probe calls neither the refresh nor the credit collaborator, the refresh is
\* skipped ("fresh") only for capabilities that carry a timestamp, and credit
\* is fetched only when configured
AnswerPossible(probe, refresh, credit) ==
    LET current == MapGet(entryMap, hcCurrent)
    IN IF probe # "live"
       THEN refresh = "fails" /\ credit = "fails"
       ELSE /\ IF cfg.fetchCreditOnCheck THEN TRUE ELSE credit = "ok"
            /\ IF refresh # "fresh" THEN TRUE
               ELSE IF hcDetached THEN FALSE
               ELSE current.dynamicCapabilities.updatedAt # 0

\* a pass that stores the object it probed back into the map when the probe
\* answers
ProbeReturns_Reinserts(probe, refresh, credit) ==
    /\ hcCurrent # NoToken
    /\ UNCHANGED <<cfg, writes, disk, initVars, healthChecking, hcSnapshot,
                   roundRobinCursor, ops>>
    /\ LET visited ==
               IF hcDetached
               THEN MapSet(entryMap, hcCurrent,
                           AfterProbe(NewEntry(hcCurrent, us, TRUE, {}, {}),
                                      probe, refresh, credit))
               ELSE MapSet(entryMap, hcCurrent,
                           AfterProbe(MapGet(entryMap, hcCurrent), probe, refresh, credit))
           pass == AdvancePass(visited, hcQueue)
       IN /\ AnswerPossible(probe, refresh, credit)
          /\ entryMap' = pass.map
          /\ hcQueue' = pass.queue
          /\ hcCurrent' = pass.current
          /\ hcDetached' = FALSE
          /\ last' = Done("probe", <<hcCurrent, probe>>, hcDetached)

\* the awaited liveness probe answers; the pass runs on to its next await
ProbeReturns(probe, refresh, credit) ==
    /\ hcCurrent # NoToken
    /\ UNCHANGED <<cfg, writes, disk, initVars, healthChecking, hcSnapshot,
                   roundRobinCursor, ops>>
    /\ LET visited ==
               IF hcDetached THEN entryMap
               ELSE MapSet(entryMap, hcCurrent,
                           AfterProbe(MapGet(entryMap, hcCurrent), probe, refresh, credit))
           pass == AdvancePass(visited, hcQueue)
       IN /\ AnswerPossible(probe, refresh, credit)
          /\ entryMap' = pass.map
          /\ hcQueue' = pass.queue
          /\ hcCurrent' = pass.current
          /\ hcDetached' = FALSE
          /\ last' = Done("probe", <<hcCurrent, probe>>, hcDetached)

\* the pass ends: one persist, then the in-progress flag is cleared
FinishHealthCheck ==
    /\ healthChecking
    /\ hcCurrent = NoToken
    /\ disk' = persistedFile
    /\ healthChecking' = FALSE
    /\ hcSnapshot' = << >>
    /\ last' = Done("healthCheckDone", hcSnapshot, "done")
    /\ UNCHANGED <<cfg, writes, entryMap, initVars, hcQueue, hcCurrent,
                   hcDetached, roundRobinCursor, ops>>

\* a selection that advances the cursor whatever it returns
CursorAfter_Always(picked) == roundRobinCursor + 1

\* a selection that forgets to advance the cursor
CursorAfter_Stuck(picked) == roundRobinCursor

\* the cursor after a selection that returned a token
CursorAfter(picked) ==
    IF cfg.pickStrategy = "round_robin" /\ picked
    THEN roundRobinCursor + 1
    ELSE roundRobinCursor

\* pickToken()
PickToken ==
    /\ Counted
    /\ \E token \in pickToken :
          /\ roundRobinCursor' = CursorAfter(cfg.enabled /\ Len(getAllTokens) > 0)
          /\ last' = [Done("pickToken", << >>, token)
                         EXCEPT !.earlier = SamePicksBefore("pickToken", << >>)]
    /\ UNCHANGED <<cfg, writes, entryMap, disk, initVars, hcVars>>

\* pickTokenFromAuthorization(authorization)
PickTokenFromAuthorization(authorization) ==
    /\ Counted
    /\ \E res \in pickTokenFromAuthorizationDetailed(authorization) :
          /\ roundRobinCursor' =
                 CursorAfter(/\ ~authorization.present
                                \/ Len(trim(authorization.value)) = 0
                             /\ cfg.enabled /\ Len(getAllTokens) > 0)
          /\ last' = Done("pickTokenFromAuthorization", authorization, res.token)
    /\ UNCHANGED <<cfg, writes, entryMap, disk, initVars, hcVars>>

\* pickTokenForRequest(request)
PickTokenForRequest(req) ==
    /\ Counted
    /\ \E res \in pickTokenForRequest(req) :
          /\ roundRobinCursor' = CursorAfter(res.error = NoError)
          /\ last' = [Done("pickTokenForRequest", req, res)
                         EXCEPT !.earlier = SamePicksBefore("pickTokenForRequest", req)]
    /\ UNCHANGED <<cfg, writes, entryMap, disk, initVars, hcVars>>

Next ==
    \/ InitPool
    \/ InitLoadReturns
    \/ ReloadFromDisk
    \/ \E req \in AddRequests : AddTokens(req)
    \/ \E rawTokens \in RemoveRequests : RemoveTokens(rawTokens)
    \/ \E token \in PoolTokens, enabled \in BOOLEAN : SetTokenEnabled(token, enabled)
    \/ \E token \in PoolTokens, live \in BOOLEAN : SyncTokenCheckResult(token, live)
    \/ RunHealthCheck
    \/ \E probe \in ProbeOutcomes, refresh \in RefreshOutcomes, credit \in CreditOutcomes :
          ProbeReturns(probe, refresh, credit)
    \/ FinishHealthCheck
    \/ PickToken
    \/ \E authorization \in AuthHeaders : PickTokenFromAuthorization(authorization)
    \/ \E req \in Requests : PickTokenForRequest(req)

Spec == Init /\ [][Next]_vars

----------------------------------------------------------------------------
\* Selections only, from a pool that has served any number of selections.

\* the pool after addTokens(["a", "c", "d"], {defaultRegion: "us"})
ThreePool ==
    AddLoop(<< >>,
            normalizeAddTokens(<<StringItem(TokA), StringItem(TokC), StringItem(TokD)>>,
                               Str(us)).items,
            0).map

\* a request naming three tokens, and one served from the pool
SelectionRequests ==
    { Request(Str(Bearer \o SP \o TokA \o Comma \o TokC \o Comma \o TokD),
              Str(us), "m1", "image", {}),
      Request(Absent, Absent, "m1", "image", {}) }

InitSelections ==
    /\ cfg \in {c \in Configs : c.enabled}
    /\ entryMap \in {<< >>, ThreePool}
    /\ disk = [state |-> "ok", tokens |-> entryMap]
    /\ initialized = TRUE
    /\ timerStarted = (cfg.healthCheckIntervalMs > 0)
    /\ initLoading = FALSE
    /\ initLoads = 1
    /\ timersSet = (IF cfg.healthCheckIntervalMs > 0 THEN 1 ELSE 0)
    /\ healthChecking = FALSE
    /\ hcSnapshot = << >>
    /\ hcQueue = << >>
    /\ hcCurrent = NoToken
    /\ hcDetached = FALSE
    /\ roundRobinCursor \in 0..MaxCursor
    /\ last = [op |-> "constructor", arg |-> << >>, res |-> << >>,
               tokensBefore |-> {}, prev |-> NoPrev, before |-> NoEntry,
               earlier |-> << >>]
    /\ writes = NoWrites
    /\ ops = 0

NextSelections ==
    \/ PickToken
    \/ \E req \in SelectionRequests : PickTokenForRequest(req)

SpecSelections == InitSelections /\ [][NextSelections]_vars

----------------------------------------------------------------------------
\* Overlapping callers: a mutating call is made while the persistToDisk of an
\* earlier one has not finished.  persistToDisk awaits ensureDir, serializes
\* the entry map as it is then, and awaits writeJson; nothing orders the
\* writeJson calls of two persists, so they land in either order.

MaxWrites == 2

\* the pool after addTokens(["a"], {defaultRegion: "us"})
OnePool ==
    AddLoop(<< >>,
            normalizeAddTokens(<<StringItem(TokA)>>, Str(us)).items, 0).map

InitWrites ==
    /\ cfg \in {c \in Configs : c.enabled}
    /\ entryMap = OnePool
    /\ disk = [state |-> "ok", tokens |-> entryMap]
    /\ initialized = TRUE
    /\ timerStarted = (cfg.healthCheckIntervalMs > 0)
    /\ initLoading = FALSE
    /\ initLoads = 1
    /\ timersSet = (IF cfg.healthCheckIntervalMs > 0 THEN 1 ELSE 0)
    /\ healthChecking = FALSE
    /\ hcSnapshot = << >>
    /\ hcQueue = << >>
    /\ hcCurrent = NoToken
    /\ hcDetached = FALSE
    /\ roundRobinCursor = 0
    /\ last = [op |-> "constructor", arg |-> << >>, res |-> << >>,
               tokensBefore |-> {}, prev |-> NoPrev, before |-> NoEntry,
               earlier |-> << >>]
    /\ writes = NoWrites
    /\ ops = 0

\* the call reaches `await this.persistToDisk()`: one more persist in flight
PersistStarts ==
    /\ writes.waiting + Cardinality(writes.flying) < MaxWrites
    /\ writes' = [writes EXCEPT !.waiting = @ + 1]

writesFrame ==
    <<cfg, disk, initVars, hcVars, roundRobinCursor>>

\* addTokens, up to its await of persistToDisk
AddTokensStarts(req) ==
    LET normalized == normalizeAddTokens(req.rawTokens, req.defaultRegion)
        loop == AddLoop(entryMap, normalized.items, 0)
    IN /\ Counted
       /\ ~normalized.threw
       /\ entryMap' = loop.map
       /\ IF ~loop.threw /\ loop.added > 0 THEN PersistStarts ELSE UNCHANGED writes
       /\ last' = Done("addTokens", req,
                       [threw |-> loop.threw, added |-> loop.added,
                        total |-> Len(loop.map)])
       /\ UNCHANGED writesFrame

\* removeTokens, up to its await of persistToDisk
RemoveTokensStarts(rawTokens) ==
    LET trimmed == [i \in 1..Len(rawTokens) |-> trim(rawTokens[i])]
        NonEmpty(t) == t # << >>
        loop == RemoveLoop(entryMap, SelectSeq(trimmed, NonEmpty), 0)
    IN /\ Counted
       /\ entryMap' = loop.map
       /\ IF loop.removed > 0 THEN PersistStarts ELSE UNCHANGED writes
       /\ last' = Done("removeTokens", rawTokens,
                       [removed |-> loop.removed, total |-> Len(loop.map)])
       /\ UNCHANGED writesFrame

\* setTokenEnabled, up to its await of persistToDisk
SetTokenEnabledStarts(token, enabled) ==
    /\ Counted
    /\ MapHas(entryMap, token)
    /\ LET item == MapGet(entryMap, token)
       IN /\ entryMap' = MapSet(entryMap, token,
                                [item EXCEPT !.enabled = enabled,
                                             !.live = IF enabled THEN @ ELSE "false"])
          /\ last' = [Done("setTokenEnabled", <<token, enabled>>, TRUE)
                         EXCEPT !.before = item]
    /\ PersistStarts
    /\ UNCHANGED writesFrame

\* syncTokenCheckResult, up to its await of persistToDisk
SyncTokenCheckResultStarts(token, live) ==
    /\ Counted
    /\ MapHas(entryMap, token)
    /\ LET item == MapGet(entryMap, token)
       IN /\ entryMap' = MapSet(entryMap, token, SyncedEntry(item, live))
          /\ last' = [Done("syncTokenCheckResult", <<token, live>>, TRUE)
                         EXCEPT !.before = item]
    /\ PersistStarts
    /\ UNCHANGED writesFrame

\* persistToDisk after ensureDir: the payload is the entry map as it is now
PersistSerializes ==
    /\ writes.waiting > 0
    /\ writes' = [waiting |-> writes.waiting - 1,
                   flying |-> writes.flying \cup {getEntries}]
    /\ last' = Done("serialize", << >>, getEntries)
    /\ UNCHANGED <<entryMap, ops>>
    /\ UNCHANGED writesFrame

\* one of the writeJson calls in flight completes: the file is its payload
WriteLands ==
    /\ \E payload \in writes.flying :
          /\ disk' = [state |-> "ok", tokens |-> payload]
          /\ writes' = [writes EXCEPT !.flying = @ \ {payload}]
          /\ last' = Done("writeLands", << >>, payload)
    /\ UNCHANGED <<cfg, entryMap, initVars, hcVars, roundRobinCursor, ops>>

WriteRequests ==
    { [rawTokens |-> <<StringItem(TokC)>>, defaultRegion |-> Str(us)],
      [rawTokens |-> <<StringItem(TokA)>>, defaultRegion |-> Str(jp)] }

NextWrites ==
    \/ \E req \in WriteRequests : AddTokensStarts(req)
    \/ \E rawTokens \in {<<TokA>>, <<TokC>>} : RemoveTokensStarts(rawTokens)
    \/ \E enabled \in BOOLEAN : SetTokenEnabledStarts(TokA, enabled)
    \/ \E live \in BOOLEAN : SyncTokenCheckResultStarts(TokA, live)
    \/ PersistSerializes
    \/ WriteLands

SpecWrites == InitWrites /\ [][NextWrites]_vars

----------------------------------------------------------------------------
\* Properties.

SeqElems(s) == {s[i] : i \in 1..Len(s)}

\* a token starts, in any letter case, with one of the given region codes
\* followed by "-"
HasPrefixOf(token, codes) ==
    \E r \in codes : startsWith(toLowerCase(token), r \o <<"-">>)

LegacyPrefixCodes == {us, hk, jp, sg}

\* the last completed operation was pickTokenForRequest
PickedForRequest == last.op = "pickTokenForRequest"

\* ... and it returned a token
PickSucceeded == PickedForRequest /\ last.res.error = NoError

\* the tokens the Authorization header of a request supplies
AuthTokensOf(req) == SeqElems(parseAuthorizationTokens(req.authorization).tokens)

\* the request carries a non-blank X-Region header
XRegionSupplied(req) == req.xRegion.present /\ trim(req.xRegion.value) # << >>

\* the tokens the candidates of a request are built from
CandidateTokensOf(req) ==
    IF AuthTokensOf(req) # {} THEN AuthTokensOf(req) ELSE MapTokens(entryMap)

\* C1: a token returned by pickTokenForRequest is one of the call's candidates
\* (a token of the Authorization header when the header supplies any, a pool
\* token otherwise); its region is non-null and equals X-Region when X-Region
\* was supplied; a candidate known to the pool is enabled, carries the
\* returned region and matches the requested model and capability tags, and an
\* ad-hoc candidate carries the header's region.
C1_SelectedIsEligible ==
    PickSucceeded =>
        LET req == last.arg
            res == last.res
        IN /\ res.token \in CandidateTokensOf(req)
           /\ res.region \in RegionCodes
           /\ XRegionSupplied(req) => res.region = req.xRegion.value
           /\ IF MapHas(entryMap, res.token)
              THEN LET entry == MapGet(entryMap, res.token)
                   IN /\ entry.enabled
                      /\ entry.live # "false"
                      /\ entry.region = res.region
                      /\ IF entry.allowedModels # {}
                         THEN req.requestedModel \in entry.allowedModels
                         ELSE LET dynamicModels ==
                                      IF req.taskType = "image"
                                      THEN entry.dynamicCapabilities.imageModels
                                      ELSE entry.dynamicCapabilities.videoModels
                              IN dynamicModels # {} => req.requestedModel \in dynamicModels
                      /\ req.requiredCapabilityTags \subseteq
                             (entry.capabilityTags \cup
                              entry.dynamicCapabilities.capabilityTags)
              ELSE /\ res.region = parseRegionCode(req.xRegion)
                   /\ req.requiredCapabilityTags = {}

\* a request with X-Region and no Authorization token was served by a pool
\* entry that is restricted to a list of models
C1_Witness ==
    /\ PickSucceeded
    /\ XRegionSupplied(last.arg)
    /\ AuthTokensOf(last.arg) = {}
    /\ MapHas(entryMap, last.res.token)
    /\ MapGet(entryMap, last.res.token).allowedModels # {}

\* the pool entry a selection returned, when it returned one
ReturnedPoolEntry ==
    \/ last.op = "pickToken" /\ last.res # NoToken
    \/ PickSucceeded /\ MapHas(entryMap, last.res.token)

ReturnedToken == IF last.op = "pickToken" THEN last.res ELSE last.res.token

\* C2 as stated: a pool entry returned by pickToken or pickTokenForRequest is
\* enabled and its live flag is true.
C2_ReturnedEntryLive ==
    ReturnedPoolEntry =>
        /\ MapGet(entryMap, ReturnedToken).enabled
        /\ MapGet(entryMap, ReturnedToken).live = "true"

\* C2: a pool entry returned by pickToken or pickTokenForRequest is enabled and
\* its live flag is not false: it is true, or still undefined because the
\* entry has not been checked yet.
C2_ReturnedEntryNotDead ==
    ReturnedPoolEntry =>
        /\ MapGet(entryMap, ReturnedToken).enabled
        /\ MapGet(entryMap, ReturnedToken).live # "false"

\* pickToken returned an entry that was never checked, while the pool also
\* holds an enabled entry whose live flag is false
C2_Witness ==
    /\ last.op = "pickToken" /\ last.res # NoToken
    /\ MapGet(entryMap, last.res).live = Undefined
    /\ \E i \in 1..Len(entryMap) : entryMap[i].enabled /\ entryMap[i].live = "false"

\* the pool holds an entry for the token and the entry is enabled
EnabledInPool(map, token) == MapHas(map, token) /\ MapGet(map, token).enabled

\* the Authorization header is absent or blank
NoHeader(authorization) ==
    ~authorization.present \/ trim(authorization.value) = << >>

\* pickToken and pickTokenForRequest returned no disabled pool entry
SelectedEntryEnabled ==
    /\ (last.op = "pickToken" /\ last.res # NoToken) => EnabledInPool(entryMap, last.res)
    /\ (PickSucceeded /\ MapHas(entryMap, last.res.token)) =>
           EnabledInPool(entryMap, last.res.token)

\* pickTokenFromAuthorization returned no disabled pool entry
HeaderPickEnabled ==
    (last.op = "pickTokenFromAuthorization" /\ MapHas(entryMap, last.res)) =>
        EnabledInPool(entryMap, last.res)

\* pickTokenFromAuthorization, called without tokens in the header, returned
\* no disabled pool entry
AmbientHeaderPickEnabled ==
    (last.op = "pickTokenFromAuthorization" /\ NoHeader(last.arg) /\ last.res # NoToken) =>
        EnabledInPool(entryMap, last.res)

\* the step starts a liveness probe, for the entry hcCurrent' names
ProbeStarts ==
    /\ \/ last'.op = "runHealthCheck" /\ last'.res = "started"
       \/ last'.op = "probe"
    /\ hcCurrent' # NoToken

\* the step called removeTokens with the token in its list
RemovesToken(token) ==
    /\ last'.op = "removeTokens"
    /\ \E i \in 1..Len(last'.arg) : trim(last'.arg[i]) = token

\* the disabled entries of the pool that the step drops satisfy How
DisabledDroppedOnlyBy(How(_)) ==
    \A i \in 1..Len(entryMap) :
        (~entryMap[i].enabled /\ ~MapHas(entryMap', entryMap[i].token)) =>
            How(entryMap[i].token)

LoadsOrRemoves(token) ==
    RemovesToken(token) \/ last'.op \in {"init", "reloadFromDisk"}

\* C3 as stated: a disabled pool entry is returned by no selection operation
\* (pickToken, pickTokenFromAuthorization, pickTokenForRequest, named in
\* Authorization or not), no probe is started for it, and it leaves the pool
\* only by a removeTokens call for it.
C3_DisabledExcludedAndKept ==
    [][/\ SelectedEntryEnabled'
       /\ HeaderPickEnabled'
       /\ ProbeStarts => EnabledInPool(entryMap', hcCurrent')
       /\ DisabledDroppedOnlyBy(RemovesToken)]_vars

\* C3: a disabled pool entry is never returned by pickToken, by
\* pickTokenForRequest (named in Authorization or not) or by
\* pickTokenFromAuthorization called without tokens in the header; a health
\* check starts no probe for it; and it leaves the pool only by a removeTokens
\* call for it or by a load of the pool file (init, reloadFromDisk), which
\* replaces the whole pool. pickTokenFromAuthorization with tokens in the
\* header returns one of them without consulting the pool.
C3_DisabledExcluded ==
    [][/\ SelectedEntryEnabled'
       /\ AmbientHeaderPickEnabled'
       /\ ProbeStarts => EnabledInPool(entryMap', hcCurrent')
       /\ DisabledDroppedOnlyBy(LoadsOrRemoves)]_vars

\* pickTokenForRequest was called with the token of a disabled pool entry in
\* Authorization, in a region and for a model the entry would serve
C3_Witness ==
    /\ PickedForRequest
    /\ \E t \in AuthTokensOf(last.arg) :
          /\ MapHas(entryMap, t)
          /\ ~MapGet(entryMap, t).enabled
          /\ MapGet(entryMap, t).region # NoRegion
          /\ XRegionSupplied(last.arg) => MapGet(entryMap, t).region = last.arg.xRegion.value
          /\ last.arg.requestedModel \in MapGet(entryMap, t).allowedModels
    /\ last.res.error = "no_matching_token"

\* the candidates of the last pickTokenForRequest call were built: neither
\* header was rejected
CandidatesBuilt ==
    /\ PickedForRequest
    /\ last.res.error \notin {"unsupported_region", "invalid_authorization_format",
                              "empty_authorization_tokens"}

\* C4 as stated: a candidate token with one of the five region prefixes (cn-,
\* us-, hk-, jp-, sg-, any letter case) makes pickTokenForRequest return
\* prefixed_token_not_supported.
C4_FivePrefixesRejected ==
    (CandidatesBuilt /\ \E t \in CandidateTokensOf(last.arg) : HasPrefixOf(t, RegionCodes)) =>
        last.res.error = "prefixed_token_not_supported"

\* C4: a candidate token with one of the four legacy prefixes us-, hk-, jp-,
\* sg- (any letter case) makes pickTokenForRequest return
\* prefixed_token_not_supported, whatever the other candidates are; a token
\* starting with cn- is not treated as prefixed by the selection.
C4_LegacyPrefixesRejected ==
    (CandidatesBuilt /\ \E t \in CandidateTokensOf(last.arg) : HasPrefixOf(t, LegacyPrefixCodes)) =>
        /\ last.res.error = "prefixed_token_not_supported"
        /\ last.res.token = NoToken
        /\ last.res.region = NoRegion

\* a call was rejected for an upper-case prefixed candidate although another
\* candidate of the call is ready in the requested region and matches
C4_Witness ==
    /\ PickedForRequest
    /\ last.res.error = "prefixed_token_not_supported"
    /\ \E t \in CandidateTokensOf(last.arg) :
          HasPrefixOf(t, LegacyPrefixCodes) /\ t # toLowerCase(t)
    /\ ReqMatched(last.arg) # << >>

\* C5 as stated: no pool entry's token starts with a region prefix (cn-, us-,
\* hk-, jp-, sg-, any letter case).
C5_NoPrefixedEntry ==
    \A i \in 1..Len(entryMap) : ~HasPrefixOf(entryMap[i].token, RegionCodes)

\* C5: addTokens and every other operation but a load of the pool file create
\* no entry whose token starts with a region prefix; a pool entry with such a
\* token was loaded from a pool file that holds it (init, reloadFromDisk).
C5_PrefixedOnlyLoaded ==
    [][\A i \in 1..Len(entryMap') :
          HasPrefixOf(entryMap'[i].token, RegionCodes) =>
              \/ MapHas(entryMap, entryMap'[i].token)
              \/ last'.op \in {"init", "reloadFromDisk"}]_vars

\* addTokens got a list whose second token is prefixed: it threw after
\* storing the first token, and the prefixed one is not in the pool
C5_Witness ==
    /\ last.op = "addTokens"
    /\ last.res.threw /\ last.res.added > 0
    /\ \E i \in 1..Len(last.arg.rawTokens) :
          /\ HasPrefixOf(last.arg.rawTokens[i].token, RegionCodes)
          /\ ~MapHas(entryMap, last.arg.rawTokens[i].token)

RequestTokenErrors ==
    {"invalid_authorization_format", "empty_authorization_tokens", "unsupported_region",
     "prefixed_token_not_supported", "missing_region", "no_matching_token"}

\* C6: pickTokenForRequest returns either a success (error null, a token, a
\* region among cn/us/hk/jp/sg) or a rejection (token null and one of the six
\* error codes); in the pool state of a call, every request gets a result
\* (evaluated in the pool state of each call that names no token, no region).
C6_TypedResult ==
    /\ PickedForRequest =>
           \/ /\ last.res.error = NoError
              /\ last.res.token # NoToken
              /\ last.res.region \in RegionCodes
           \/ /\ last.res.error \in RequestTokenErrors
              /\ last.res.token = NoToken
              /\ last.res.region \in RegionCodes \cup {NoRegion}
    /\ (PickedForRequest /\ last.arg = Request(Absent, Absent, "m1", "image", {})) =>
           \A req \in Requests : pickTokenForRequest(req) # {}

\* a call was rejected with no_matching_token and a region hint
C6_Witness ==
    /\ PickedForRequest
    /\ last.res.error = "no_matching_token"
    /\ last.res.token = NoToken
    /\ last.res.region \in RegionCodes

\* the rejection conditions of a request, each taken on its own
RejectionApplies(req, k) ==
    CASE k = 1 -> XRegionSupplied(req) /\ req.xRegion.value \notin RegionCodes
      [] k = 2 -> parseAuthorizationTokens(req.authorization).error # NoError
      [] k = 3 -> CandidateTokensOf(req) = {}
      [] k = 4 -> \E t \in CandidateTokensOf(req) : hasLegacyPrefix(t)
      [] k = 5 -> ReqRegionReady(req) = << >>
      [] k = 6 -> ReqMatched(req) = << >>

RejectionCode(req, k) ==
    CASE k = 1 -> "unsupported_region"
      [] k = 2 -> parseAuthorizationTokens(req.authorization).error
      [] k = 3 -> "no_matching_token"
      [] k = 4 -> "prefixed_token_not_supported"
      [] k = 5 -> "missing_region"
      [] k = 6 -> "no_matching_token"

\* the error of the first condition, in the order 1..6, that applies
FirstRejection(req) ==
    LET applying == {k \in 1..6 : RejectionApplies(req, k)}
    IN IF applying = {} THEN NoError
       ELSE RejectionCode(req, CHOOSE k \in applying : \A j \in applying : k <= j)

\* C7: pickTokenForRequest returns the error of the first rejection condition
\* that applies, in the order unsupported_region, invalid_authorization_format
\* or empty_authorization_tokens, empty candidate set (no_matching_token),
\* prefixed_token_not_supported, missing_region, no_matching_token; it
\* succeeds when none applies.
C7_FirstRejectionWins ==
    PickedForRequest => last.res.error = FirstRejection(last.arg)

\* a call with a prefixed candidate and no candidate ready in the requested
\* region was rejected for the prefix
C7_Witness ==
    /\ PickedForRequest
    /\ RejectionApplies(last.arg, 4)
    /\ RejectionApplies(last.arg, 5)
    /\ ~RejectionApplies(last.arg, 3)
    /\ last.res.error = "prefixed_token_not_supported"

\* C8: pickTokenForRequest never returns a pool entry that has no region, also
\* when the entry's token is named in Authorization and a valid X-Region is
\* supplied.
C8_NoRegionNeverSelected ==
    (PickSucceeded /\ MapHas(entryMap, last.res.token)) =>
        MapGet(entryMap, last.res.token).region # NoRegion

\* a call with a valid X-Region that names only an enabled, not-dead pool
\* entry without region was rejected with missing_region
C8_Witness ==
    /\ PickedForRequest
    /\ parseRegionCode(last.arg.xRegion) # NoRegion
    /\ AuthTokensOf(last.arg) # {}
    /\ \A t \in AuthTokensOf(last.arg) :
          /\ MapHas(entryMap, t)
          /\ MapGet(entryMap, t).enabled
          /\ MapGet(entryMap, t).live # "false"
          /\ MapGet(entryMap, t).region = NoRegion
    /\ last.res.error = "missing_region"

\* removeTokens([t]) was called right after addTokens([t]) with a valid region
AddThenRemove(t) ==
    /\ last.op = "removeTokens"
    /\ last.prev.op = "addTokens"
    /\ Len(last.prev.arg.rawTokens) = 1
    /\ trim(last.prev.arg.rawTokens[1].token) = t
    /\ ~normalizeAddTokens(last.prev.arg.rawTokens, last.prev.arg.defaultRegion).threw
    /\ Len(last.arg) = 1
    /\ trim(last.arg[1]) = t

AddRemoveTokens == {TokA, TokUS, TokCN}

\* C9 as stated: addTokens([t]) followed by removeTokens([t]) leaves the entry
\* count what it was before the add.
C9_AddRemoveKeepsCount ==
    \A t \in AddRemoveTokens :
        AddThenRemove(t) => Len(entryMap) = Cardinality(last.prev.tokensBefore)

\* C9: for a token t that is not in the pool, addTokens([t]) followed by
\* removeTokens([t]) leaves the entry count what it was before the add. (For
\* a token already in the pool the add changes nothing and the remove deletes
\* the entry.)
C9_FreshAddRemoveKeepsCount ==
    \A t \in AddRemoveTokens :
        (AddThenRemove(t) /\ t \notin last.prev.tokensBefore) =>
            Len(entryMap) = Cardinality(last.prev.tokensBefore)

\* a token was added to a non-empty pool that did not hold it, and removed
C9_Witness ==
    \E t \in AddRemoveTokens :
        /\ AddThenRemove(t)
        /\ t \notin last.prev.tokensBefore
        /\ last.prev.tokensBefore # {}
        /\ last.prev.res.added = 1
        /\ last.res.removed = 1

\* no two entries of the map hold the same token
UniqueTokens(map) ==
    \A i, j \in 1..Len(map) : map[i].token = map[j].token => i = j

\* C10: addTokens changes no entry the pool already holds, whatever region,
\* enabled flag, allowedModels or capabilityTags the request gives for its
\* token, and the pool never holds two entries with the same token.
C10_AddIdempotent ==
    [][/\ UniqueTokens(entryMap')
       /\ last'.op = "addTokens" =>
              \A i \in 1..Len(entryMap) :
                  /\ i <= Len(entryMap')
                  /\ entryMap'[i] = entryMap[i]]_vars

\* addTokens was called for the token of an enabled pool entry with
\* enabled = false, another region and other models: nothing was added
C10_Witness ==
    /\ last.op = "addTokens"
    /\ cfg.enabled
    /\ ~last.res.threw
    /\ last.res.added = 0
    /\ \E i \in 1..Len(last.arg.rawTokens) :
          LET item == last.arg.rawTokens[i]
              token == trim(item.token)
          IN /\ MapHas(entryMap, token)
             /\ MapGet(entryMap, token).enabled
             /\ item.enabled = "false"
             /\ item.region.present
             /\ item.region.value # MapGet(entryMap, token).region
             /\ item.allowedModels # MapGet(entryMap, token).allowedModels

\* the candidates of the last pickTokenForRequest call were the single pool
\* entry of token t, enabled, not dead, without legacy prefix, ready in the
\* region the request asks for and restricted to a static list of models; the
\* request asks for no capability tag
SingleStaticCandidate(t) ==
    /\ CandidatesBuilt
    /\ CandidateTokensOf(last.arg) = {t}
    /\ MapHas(entryMap, t)
    /\ ~hasLegacyPrefix(t)
    /\ LET entry == MapGet(entryMap, t)
       IN /\ entry.enabled
          /\ entry.live # "false"
          /\ entry.region # NoRegion
          /\ XRegionSupplied(last.arg) => last.arg.xRegion.value = entry.region
          /\ entry.allowedModels # {}
    /\ last.arg.requiredCapabilityTags = {}

\* C11: for a single selectable candidate with a non-empty allowedModels list
\* the static list alone decides: a request for a model of the list returns
\* the token with the entry's region, a request for another model returns
\* no_matching_token, whatever the entry's dynamic capabilities hold.
C11_StaticListDecides ==
    \A t \in PoolTokens :
        SingleStaticCandidate(t) =>
            IF last.arg.requestedModel \in MapGet(entryMap, t).allowedModels
            THEN last.res = [token |-> t, region |-> MapGet(entryMap, t).region,
                             error |-> NoError]
            ELSE last.res.error = "no_matching_token" /\ last.res.token = NoToken

\* an image request for a model of the static list was served by an entry
\* whose refreshed dynamic image models do not hold that model
C11_Witness ==
    \E t \in PoolTokens :
        /\ SingleStaticCandidate(t)
        /\ last.arg.taskType = "image"
        /\ MapGet(entryMap, t).dynamicCapabilities.imageModels # {}
        /\ last.arg.requestedModel \notin MapGet(entryMap, t).dynamicCapabilities.imageModels
        /\ last.res.token = t

\* the last pickTokenForRequest call carried a valid X-Region and its
\* candidates were pool entries without legacy prefix, none empty-handed of
\* region, all of a region other than the requested one
AllCandidatesElsewhere ==
    /\ CandidatesBuilt
    /\ XRegionSupplied(last.arg)
    /\ CandidateTokensOf(last.arg) # {}
    /\ \A t \in CandidateTokensOf(last.arg) :
          /\ MapHas(entryMap, t)
          /\ ~hasLegacyPrefix(t)
          /\ MapGet(entryMap, t).region # NoRegion
          /\ MapGet(entryMap, t).region # last.arg.xRegion.value

\* C12: when X-Region is given (jp) and every candidate of the call is a
\* non-prefixed pool entry of another region (us), pickTokenForRequest
\* returns missing_region with token and region null.
C12_RegionMismatchIsMissingRegion ==
    AllCandidatesElsewhere => last.res = Reject("missing_region", NoRegion)

\* X-Region jp met a pool whose entries are all of region us
C12_Witness ==
    /\ AllCandidatesElsewhere
    /\ last.arg.xRegion.value = jp
    /\ AuthTokensOf(last.arg) = {}
    /\ \A i \in 1..Len(entryMap) : entryMap[i].region = us /\ entryMap[i].enabled
    /\ last.res.error = "missing_region"

\* the step delivers the answer of a failed liveness probe (an exception or
\* "not live") for the entry of token t, which the pool holds
FailedProbeOf(t) ==
    /\ last'.op = "probe"
    /\ last'.arg[1] = t
    /\ last'.arg[2] \in {"not_live", "throws"}
    /\ MapHas(entryMap, t)
    /\ MapHas(entryMap', t)

\* C13: every failed health check of a region-assigned entry counts on the
\* pool's entry, so that autoDisableFailures consecutive failed passes starting
\* from consecutiveFailures = 0 leave it disabled when auto-disable is on, and
\* pickTokenForRequest does not return it while it is disabled, named in
\* Authorization or not.
C13_FailedPassesDisable ==
    [][/\ \A i \in 1..Len(entryMap) :
              LET t == entryMap[i].token
              IN FailedProbeOf(t) =>
                     LET after == MapGet(entryMap', t)
                     IN /\ after.consecutiveFailures = entryMap[i].consecutiveFailures + 1
                        /\ (/\ cfg.autoDisableEnabled
                            /\ after.consecutiveFailures >= cfg.autoDisableFailures) =>
                               ~after.enabled
       /\ (PickSucceeded' /\ MapHas(entryMap', last'.res.token)) =>
              MapGet(entryMap', last'.res.token).enabled]_vars

\* the last operation was syncTokenCheckResult(t, true) on a pool entry
SyncedLive(t) ==
    /\ last.op = "syncTokenCheckResult"
    /\ last.arg = <<t, TRUE>>
    /\ last.res = TRUE

\* C14: syncTokenCheckResult(token, true) on a pool entry, auto-disabled or
\* not, leaves the entry with consecutiveFailures = 0, enabled = true and
\* live = true, so that the ambient selection can return it again.
C14_SyncLiveRecovers ==
    \A t \in PoolTokens :
        SyncedLive(t) =>
            /\ MapHas(entryMap, t)
            /\ MapGet(entryMap, t).consecutiveFailures = 0
            /\ MapGet(entryMap, t).enabled
            /\ MapGet(entryMap, t).live = "true"
            /\ t \in SeqElems(getAllTokens)

\* the synced entry had been auto-disabled: it was disabled, not live, with
\* as many failures as the threshold
C14_Witness ==
    \E t \in PoolTokens :
        /\ SyncedLive(t)
        /\ cfg.autoDisableEnabled
        /\ ~last.before.enabled
        /\ last.before.live = "false"
        /\ last.before.consecutiveFailures >= cfg.autoDisableFailures

\* the last three operations were the same selection
ThreeSamePicks ==
    /\ last.op \in {"pickToken", "pickTokenForRequest"}
    /\ Len(last.earlier) = 2

\* the tokens of the list the last selection chose from
PickList ==
    IF last.op = "pickToken" THEN getAllTokens
    ELSE [i \in 1..Len(ReqMatched(last.arg)) |-> ReqMatched(last.arg)[i].token]

\* the tokens the last three selections returned
ThreePicked ==
    IF last.op = "pickToken"
    THEN {last.res, last.earlier[1], last.earlier[2]}
    ELSE {last.res.token, last.earlier[1].token, last.earlier[2].token}

\* C15: under round_robin, three consecutive identical selections over an
\* unchanged list of 3 candidates return each of the 3 exactly once, whatever
\* the cursor was before the first.
C15_RoundRobinCoversThree ==
    (cfg.pickStrategy = "round_robin" /\ ThreeSamePicks /\ Len(PickList) = 3) =>
        /\ ThreePicked = SeqElems(PickList)
        /\ Cardinality(ThreePicked) = 3

\* three request-scoped selections named the same three tokens, starting from
\* a cursor that is not a multiple of 3
C15_Witness ==
    /\ cfg.pickStrategy = "round_robin"
    /\ ThreeSamePicks
    /\ last.op = "pickTokenForRequest"
    /\ Len(PickList) = 3
    /\ roundRobinCursor % 3 # 0
    /\ last.earlier[2].token # PickList[1]

\* C16: a runHealthCheck call made while a pass is in progress returns the
\* zero result at once: it changes no entry, starts no probe, leaves the
\* running pass as it is and writes no file, so one pass at most is running.
C16_ReentrantCallIsNoOp ==
    [][(last'.op = "runHealthCheck" /\ healthChecking) =>
           /\ last'.res = "zero"
           /\ UNCHANGED <<entryMap, disk, healthChecking, hcQueue, hcCurrent, hcDetached>>]_vars

\* runHealthCheck was called while the probe of an entry was awaited
C16_Witness ==
    /\ last.op = "runHealthCheck"
    /\ last.res = "zero"
    /\ cfg.enabled
    /\ healthChecking
    /\ hcCurrent # NoToken
    /\ hcQueue # << >>

\* the pool that loadFromDisk builds from the file persistToDisk writes now
PersistThenLoad == LoadRecords(persistedFile.tokens, << >>)

\* C17: persisting the pool and loading the file back is a round trip: in
\* every state the public operations reach, the loaded pool has the same
\* tokens in the same order and, for each token, the same region, enabled,
\* live, consecutiveFailures, lastCheckedAt, lastError, lastCredit,
\* allowedModels, capabilityTags and dynamicCapabilities.
C17_PersistLoadRoundTrip == PersistThenLoad = entryMap

\* the pool holds an entry with refreshed dynamic capabilities and a checked
\* entry without region that failed a pass, and the round trip keeps both
C17_Witness ==
    /\ PersistThenLoad = entryMap
    /\ \E i \in 1..Len(entryMap) :
           /\ entryMap[i].dynamicCapabilities.present
           /\ entryMap[i].live = "true"
    /\ \E j \in 1..Len(entryMap) :
           /\ entryMap[j].region = NoRegion
           /\ entryMap[j].consecutiveFailures > 0
           /\ entryMap[j].lastError = "missing_region"

\* the coerced entries of the pool file: none when it is corrupt or missing
FileEntries ==
    LoadRecords(IF disk.state = "ok" THEN disk.tokens ELSE << >>, << >>)

\* C18: reloadFromDisk discards the in-memory state: when it completes, the
\* pool consists exactly of the coerced entries of the pool file, and no
\* entry that was in memory but is not in the file survives, whatever the
\* state of the file (present, corrupt or missing).
C18_ReloadDiscardsMemory ==
    [][last'.op = "reloadFromDisk" => entryMap' = FileEntries]_vars

\* C19: init is idempotent: over any number of init calls, sequential or
\* overlapping, init loads the pool from disk at most once and at most one
\* health-check timer is started; no timer is started when the pool is
\* disabled or the interval is <= 0.
C19_InitIdempotent ==
    /\ initLoads <= 1
    /\ timersSet <= 1
    /\ timerStarted = (timersSet > 0)
    /\ (~cfg.enabled \/ cfg.healthCheckIntervalMs <= 0) => timersSet = 0

\* init was called again while the first call was awaiting its load
C19_Witness ==
    /\ last.op = "init"
    /\ last.res = "already"
    /\ initLoading
    /\ initLoads = 1
    /\ ops >= 2

\* the Authorization tokens of a request that the pool does not hold
AdHocTokensOf(req) == {t \in AuthTokensOf(req) : ~MapHas(entryMap, t)}

\* a valid X-Region, no required capability tag, no prefixed candidate
AdHocServable(req) ==
    /\ ReqRegionCode(req) # NoRegion
    /\ req.requiredCapabilityTags = {}
    /\ \A t \in AuthTokensOf(req) : ~hasLegacyPrefix(t)

\* the ad-hoc case with X-Region: the call succeeds with region = X-Region,
\* every ad-hoc token is among the matched candidates the choice is made
\* from (under the random strategy it is a possible result), and an ad-hoc
\* token that is alone in the header is the token returned
AdHocSucceeds(req) ==
    /\ last.res.error = NoError
    /\ last.res.region = ReqRegionCode(req)
    /\ \A t \in AdHocTokensOf(req) :
          /\ \E i \in 1..Len(ReqMatched(req)) :
                 /\ ReqMatched(req)[i].token = t
                 /\ ReqMatched(req)[i].region = ReqRegionCode(req)
                 /\ ReqMatched(req)[i].enabled
                 /\ ReqMatched(req)[i].live
                 /\ ReqMatched(req)[i].allowedModels = {}
                 /\ ReqMatched(req)[i].capabilityTags = {}
          /\ cfg.pickStrategy = "random" =>
                 [token |-> t, region |-> ReqRegionCode(req), error |-> NoError]
                     \in pickTokenForRequest(req)
          /\ AuthTokensOf(req) = {t} => last.res.token = t

\* C20 as stated: an Authorization token that is not in the pool is an ad-hoc
\* candidate, always enabled and live, without restrictions, with the header
\* region: with a valid X-Region, no required capability tags and no prefixed
\* candidate the call can succeed with it and region = X-Region whatever the
\* pool contains; without X-Region, such a token alone yields missing_region.
C20_AdHocTokenAlone ==
    (PickedForRequest /\ AdHocTokensOf(last.arg) # {}) =>
        /\ AdHocServable(last.arg) => AdHocSucceeds(last.arg)
        /\ (/\ ~XRegionSupplied(last.arg)
            /\ Cardinality(AuthTokensOf(last.arg)) = 1) =>
               last.res = Reject("missing_region", NoRegion)

\* C20: as above, with the case without X-Region limited to an ad-hoc token
\* that carries no legacy prefix (us-, hk-, jp-, sg-, any letter case): a
\* prefixed one alone yields prefixed_token_not_supported instead.
C20_AdHocCandidate ==
    (PickedForRequest /\ AdHocTokensOf(last.arg) # {}) =>
        /\ AdHocServable(last.arg) => AdHocSucceeds(last.arg)
        /\ (/\ ~XRegionSupplied(last.arg)
            /\ Cardinality(AuthTokensOf(last.arg)) = 1) =>
               last.res =
                   IF \E t \in AuthTokensOf(last.arg) : hasLegacyPrefix(t)
                   THEN Reject("prefixed_token_not_supported", NoRegion)
                   ELSE Reject("missing_region", NoRegion)

\* an ad-hoc token named next to a pool token was served with the header
\* region while the pool held entries
C20_Witness ==
    /\ PickSucceeded
    /\ AdHocServable(last.arg)
    /\ last.res.token \in AdHocTokensOf(last.arg)
    /\ Cardinality(AuthTokensOf(last.arg)) = 2
    /\ \E t \in AuthTokensOf(last.arg) : MapHas(entryMap, t)
    /\ last.res.region = us

\* C21: whenever no pool operation is in flight, the snapshot written last
\* equals the in-memory entry map: under any interleaving of overlapping
\* mutating calls the write that lands last carries the final in-memory
\* state, and no stale snapshot overwrites a newer one.
C21_LastWriteIsFinalState ==
    (last.op = "writeLands" /\ writes = NoWrites) => disk = persistedFile

\* C22: with auto-disable on, at the end of every completed health-check
\* pass, every entry that was enabled at the start of the pass and whose
\* consecutiveFailures has reached autoDisableFailures has enabled = false
\* and live = false, whatever the cause of its failures (probe exception,
\* probe reporting not live, or missing region).
C22_ThresholdDisablesAtPassEnd ==
    [][(last'.op = "healthCheckDone" /\ cfg.autoDisableEnabled) =>
           \A i \in 1..Len(entryMap') :
               (/\ entryMap'[i].token \in SeqElems(hcSnapshot)
                /\ entryMap'[i].consecutiveFailures >= cfg.autoDisableFailures) =>
                   (~entryMap'[i].enabled /\ entryMap'[i].live = "false")]_vars

\* a step of a pass: the call up to its first await, or a probe's answer on
\* to the next await
PassAdvances ==
    \/ last'.op = "runHealthCheck" /\ last'.res = "started"
    \/ last'.op = "probe"

\* the tokens of the snapshot a step of the pass went past without awaiting a
\* probe for them
PassedWithoutProbe ==
    LET before == IF last'.op = "runHealthCheck" THEN hcSnapshot' ELSE hcQueue
    IN {t \in SeqElems(before) : t \notin SeqElems(hcQueue') /\ t # hcCurrent'}

\* C23: runHealthCheck never contacts the liveness, credit or capability
\* collaborators for an entry that has no region: the entry whose probe a pass
\* awaits has a region; and each enabled entry without region that a pass
\* comes to gets live = false, lastError = missing_region and
\* consecutiveFailures increased by exactly 1, nothing else.
C23_NoRegionNoProbe ==
    [][PassAdvances =>
           /\ hcCurrent' # NoToken => MapGet(entryMap', hcCurrent').region # NoRegion
           /\ \A t \in PassedWithoutProbe :
                  (/\ MapHas(entryMap, t)
                   /\ MapGet(entryMap, t).enabled
                   /\ MapGet(entryMap, t).region = NoRegion) =>
                      MapGet(entryMap', t) =
                          [MapGet(entryMap, t) EXCEPT
                              !.live = "false",
                              !.lastError = "missing_region",
                              !.consecutiveFailures = @ + 1]]_vars

\* a probe answered and the pass went on to an enabled entry without region,
\* which it marked without awaiting anything
C23_Witness ==
    /\ last.op = "probe"
    /\ healthChecking
    /\ hcCurrent = NoToken
    /\ \E i \in 1..Len(entryMap) :
           /\ entryMap[i].token \in SeqElems(hcSnapshot)
           /\ entryMap[i].region = NoRegion
           /\ entryMap[i].enabled
           /\ entryMap[i].live = "false"
           /\ entryMap[i].lastError = "missing_region"
           /\ entryMap[i].consecutiveFailures = 1
           /\ entryMap[i].lastCheckedAt = 0

\* a step made by a health-check pass
PassStep == PassAdvances \/ last'.op = "healthCheckDone"

\* C24: background health checks only move entries toward disablement: no
\* step of a pass changes an entry's enabled flag from false to true or drops
\* a disabled entry, and an entry that is disabled when its turn comes in a
\* pass is left as it is, every field, so a disabled entry stays disabled
\* across any number of passes.
C24_PassNeverEnables ==
    [][PassStep =>
           /\ \A t \in MapTokens(entryMap) :
                  ~MapGet(entryMap, t).enabled =>
                      MapHas(entryMap', t) /\ ~MapGet(entryMap', t).enabled
           /\ \A t \in PassedWithoutProbe :
                  (MapHas(entryMap, t) /\ ~MapGet(entryMap, t).enabled) =>
                      MapGet(entryMap', t) = MapGet(entryMap, t)]_vars

\* an entry of the snapshot was disabled while an earlier probe was awaited;
\* the pass came to it and ended, and it is disabled and was never checked
C24_Witness ==
    /\ last.op = "probe"
    /\ healthChecking
    /\ hcCurrent = NoToken
    /\ \E i \in 1..Len(entryMap) :
           /\ entryMap[i].token \in SeqElems(hcSnapshot)
           /\ ~entryMap[i].enabled
           /\ entryMap[i].consecutiveFailures = 0
           /\ entryMap[i].lastError = Undefined
           /\ entryMap[i].token # last.arg[1]

\* the model test as the specification words it: a non-empty allowedModels
\* decides; otherwise a present, non-empty dynamic list of the task type
\* decides; otherwise the candidate is not excluded on model grounds
ModelAllowed(candidate, requestedModel, taskType) ==
    LET dynamic == candidate.dynamicCapabilities
        listed == IF taskType = "image" THEN dynamic.imageModels ELSE dynamic.videoModels
    IN CASE candidate.allowedModels # {} -> requestedModel \in candidate.allowedModels
         [] candidate.allowedModels = {} /\ dynamic.present /\ listed # {} ->
                requestedModel \in listed
         [] OTHER -> TRUE

\* every required tag is a static tag or a dynamic tag of the candidate
TagsCovered(candidate, requiredCapabilityTags) ==
    \A tag \in requiredCapabilityTags :
        \/ tag \in candidate.capabilityTags
        \/ candidate.dynamicCapabilities.present
              /\ tag \in candidate.dynamicCapabilities.capabilityTags

\* C25: a candidate matches (requestedModel, taskType, requiredCapabilityTags)
\* exactly when it is enabled, live and has a region, its model test passes
\* (static allow-list first, then the dynamic list of the task type, absent or
\* empty lists not excluding it) and every required tag is in the union of
\* its static and dynamic capability tags.  Checked on every candidate built
\* for a pickTokenForRequest call.
C25_MatchExactlyWhen ==
    CandidatesBuilt =>
        \A i \in 1..Len(ReqCandidates(last.arg)) :
            LET candidate == ReqCandidates(last.arg)[i]
            IN matchesModelAndCapabilities(candidate, last.arg.requestedModel,
                                           last.arg.taskType,
                                           last.arg.requiredCapabilityTags)
               <=> /\ candidate.enabled
                   /\ candidate.live
                   /\ candidate.region # NoRegion
                   /\ ModelAllowed(candidate, last.arg.requestedModel, last.arg.taskType)
                   /\ TagsCovered(candidate, last.arg.requiredCapabilityTags)

\* a video request requiring a tag was served by a candidate without static
\* allow-list or static tags, whose dynamic capabilities list image models
\* only and carry the required tag
C25_Witness ==
    /\ PickSucceeded
    /\ last.arg.taskType = "video"
    /\ last.arg.requiredCapabilityTags # {}
    /\ MapHas(entryMap, last.res.token)
    /\ LET entry == MapGet(entryMap, last.res.token)
       IN /\ entry.allowedModels = {}
          /\ entry.capabilityTags = {}
          /\ entry.dynamicCapabilities.present
          /\ entry.dynamicCapabilities.videoModels = {}
          /\ entry.dynamicCapabilities.imageModels # {}
          /\ last.arg.requiredCapabilityTags
                 \subseteq entry.dynamicCapabilities.capabilityTags

\* the element a round-robin pick takes from the list computed for the call
AtCursor(list) == list[(roundRobinCursor % Len(list)) + 1]

\* a step that keeps the round-robin discipline of the single cursor
CursorStep ==
    /\ (/\ cfg.pickStrategy = "round_robin"
        /\ last'.op = "pickToken"
        /\ last'.res # NoToken) =>
           /\ last'.res = AtCursor(getAllTokens)
           /\ roundRobinCursor' = roundRobinCursor + 1
    /\ (/\ cfg.pickStrategy = "round_robin"
        /\ last'.op = "pickTokenForRequest"
        /\ last'.res.error = NoError) =>
           /\ last'.res.token = AtCursor(ReqMatched(last'.arg)).token
           /\ last'.res.region = AtCursor(ReqMatched(last'.arg)).region
           /\ roundRobinCursor' = roundRobinCursor + 1
    /\ (last'.op \in {"reloadFromDisk", "init"}) =>
           roundRobinCursor' = roundRobinCursor

\* C26: under round_robin one cursor is shared by pickToken and
\* pickTokenForRequest: every successful pick returns candidates[cursor mod n]
\* of the list computed for that call and then increases the cursor by
\* exactly 1; the cursor starts at 0 and neither reloadFromDisk nor the load
\* of init resets it (it is not in the file).
C26_SharedCursor ==
    (roundRobinCursor = 0) /\ [][CursorStep]_vars

\* pickToken returned the second of two tokens because an earlier pick of
\* another shape had moved the cursor to 1
C26_Witness ==
    /\ cfg.pickStrategy = "round_robin"
    /\ last.op = "pickToken"
    /\ last.earlier = << >>
    /\ Len(getAllTokens) = 2
    /\ last.res = getAllTokens[2]
    /\ roundRobinCursor = 2

\* C27: the set of tokens in the pool changes only through addTokens,
\* removeTokens and loading from disk (init, reloadFromDisk): the health-check
\* pass, setTokenEnabled, syncTokenCheckResult and the selections never add or
\* delete an entry; a token of the pass's snapshot that was removed while the
\* pass was in flight is neither in the pool nor in the file the pass persists
\* when it ends.
C27_TokenSetChanges ==
    [][/\ (MapTokens(entryMap') # MapTokens(entryMap)) =>
              last'.op \in {"addTokens", "removeTokens", "init", "reloadFromDisk"}
       /\ (last'.op = "healthCheckDone") =>
              \A token \in SeqElems(hcSnapshot) :
                  ~MapHas(entryMap, token) =>
                      /\ ~MapHas(entryMap', token)
                      /\ ~MapHas(disk'.tokens, token)]_vars

\* a pass whose snapshot was the one entry a ended after a was removed while
\* its probe was awaited: a is in neither the pool nor the file
C27_Witness ==
    /\ last.op = "healthCheckDone"
    /\ last.arg = <<TokA>>
    /\ ~MapHas(entryMap, TokA)
    /\ disk.state = "ok"
    /\ ~MapHas(disk.tokens, TokA)

\* the step delivers the answer of a failed liveness probe
FailedProbe ==
    /\ last'.op = "probe"
    /\ last'.arg[2] \in {"not_live", "throws"}

\* the failed probe of the pool's entry t is recorded on that entry, and the
\* step changes no entry but t and the ones the pass goes on to
FailureRecorded ==
    \A t \in MapTokens(entryMap) :
        FailedProbeOf(t) =>
            /\ MapGet(entryMap', t).consecutiveFailures =
                   MapGet(entryMap, t).consecutiveFailures + 1
            /\ MapGet(entryMap', t).lastError # Undefined
            /\ \A u \in MapTokens(entryMap) \ ({t, hcCurrent'} \cup PassedWithoutProbe) :
                   MapGet(entryMap', u) = MapGet(entryMap, u)

\* after a failed probe the pass is still running: it has gone past the
\* entries that are gone, disabled or without region, and either awaits the
\* next entry's probe or has exhausted its snapshot; it has written nothing
\* to the file, which the end of the pass writes
PassGoesOn ==
    /\ FailedProbe =>
           /\ healthChecking'
           /\ disk' = disk
           /\ \A t \in PassedWithoutProbe :
                  \/ ~MapHas(entryMap', t)
                  \/ ~MapGet(entryMap', t).enabled
                  \/ MapGet(entryMap', t).lastError = "missing_region"
           /\ IF hcCurrent' = NoToken THEN hcQueue' = << >>
              ELSE /\ hcCurrent' \in SeqElems(hcQueue)
                   /\ MapGet(entryMap', hcCurrent').enabled
    /\ (last'.op = "healthCheckDone") =>
           /\ disk' = [state |-> "ok", tokens |-> entryMap']
           /\ ~healthChecking'

\* a failed probe leaves the pass running up to its one persist
PassNeverAborted == [][PassGoesOn]_vars

\* C28: a failure while checking one entry never aborts a health-check pass:
\* a liveness probe that throws or reports not live is recorded on that entry
\* only (consecutiveFailures + 1, lastError set), every remaining enabled entry
\* of the snapshot is still checked, and the pass ends with its one persist.
C28_FailureNeverAborts ==
    [][FailureRecorded /\ PassGoesOn]_vars

\* when the probed object is still the pool's entry of its token, the failed
\* probe is recorded on the entry
RecordedWhenAttached == [][~hcDetached => FailureRecorded]_vars

\* the step is a failed check of the pool's entry t: a failed liveness probe,
\* a visit of the pass that finds it enabled without region, or
\* syncTokenCheckResult(t, false)
FailedCheckOf(t) ==
    \/ FailedProbeOf(t)
    \/ /\ PassAdvances
       /\ t \in PassedWithoutProbe
       /\ MapGet(entryMap, t).enabled
       /\ MapGet(entryMap, t).region = NoRegion
    \/ /\ last'.op = "syncTokenCheckResult"
       /\ last'.arg = <<t, FALSE>>
       /\ last'.res = TRUE

\* the step is a confirmed-live result for t: a liveness probe answering
\* live, or syncTokenCheckResult(t, true)
ConfirmedLiveOf(t) ==
    \/ last'.op = "probe" /\ last'.arg = <<t, "live">>
    \/ last'.op = "syncTokenCheckResult" /\ last'.arg = <<t, TRUE>>

\* what the step does to the counter of an entry the pool holds before and
\* after it
CounterStep(t) ==
    LET before == MapGet(entryMap, t).consecutiveFailures
        after == MapGet(entryMap', t).consecutiveFailures
    IN /\ after >= 0
       /\ FailedCheckOf(t) => after = before + 1
       /\ after > before => (after = before + 1 /\ FailedCheckOf(t))
       /\ after < before => (after = 0 /\ ConfirmedLiveOf(t))
       /\ (last'.op \in {"setTokenEnabled", "pickToken", "pickTokenFromAuthorization",
                         "pickTokenForRequest"}) => after = before

\* C29: an entry's consecutiveFailures is never negative, increases by
\* exactly 1 on each failed check of the entry (failed probe, missing region,
\* syncTokenCheckResult(token, false)) and decreases only by being set to 0 on
\* a confirmed-live result (probe answering live, syncTokenCheckResult(token,
\* true)); setTokenEnabled and the selections never change it.
C29_CounterDiscipline ==
    [][\A t \in MapTokens(entryMap) \cap MapTokens(entryMap') : CounterStep(t)]_vars

\* the counter discipline of the steps that are not a load of the file and
\* not the answer of a probe whose object the pool no longer holds
CounterStepsAttached ==
    [][(~(last'.op \in {"init", "reloadFromDisk"})
           /\ ~(last'.op = "probe" /\ hcDetached)) =>
          \A t \in MapTokens(entryMap) \cap MapTokens(entryMap') : CounterStep(t)]_vars

----------------------------------------------------------------------------
\* Loads of a pool file that was edited by hand while the pool holds a.

\* a record whose consecutiveFailures is the JSON value json, not a number
FileRecordJson(token, region, enabled, live, json) ==
    [token |-> token, region |-> region, enabled |-> enabled, live |-> live,
     lastCheckedAt |-> 0, lastError |-> Undefined, lastCredit |-> 0,
     consecutiveFailures |-> 0, failuresJson |-> json,
     allowedModels |-> {}, capabilityTags |-> {},
     dynamicCapabilities |-> NoDynamic]

RecordTokens == {TokA, SP, SP \o TokC}
RecordRegions == {us, <<"x", "x">>}
RecordLives == {"true", "yes"}
RecordFailures == {2, -1}
RecordFailuresJson == {"true", "string", "null"}

\* the files with bad content: unparsable, without a tokens array, or with
\* one record of any mix of good and bad fields
BadFiles ==
    { [state |-> "corrupt", tokens |-> << >>],
      [state |-> "no_tokens", tokens |-> << >>] }
    \cup
    { [state |-> "ok", tokens |-> <<FileRecord(t, r, TRUE, l, f)>>] :
          t \in RecordTokens, r \in RecordRegions, l \in RecordLives,
          f \in RecordFailures }
    \cup
    { [state |-> "ok", tokens |-> <<FileRecordJson(t, r, TRUE, l, j)>>] :
          t \in RecordTokens, r \in RecordRegions, l \in RecordLives,
          j \in RecordFailuresJson }

InitLoads ==
    /\ cfg \in {c \in Configs : c.enabled}
    /\ entryMap = OnePool
    /\ disk \in BadFiles
    /\ initialized = TRUE
    /\ timerStarted = (cfg.healthCheckIntervalMs > 0)
    /\ initLoading = FALSE
    /\ initLoads = 1
    /\ timersSet = (IF cfg.healthCheckIntervalMs > 0 THEN 1 ELSE 0)
    /\ healthChecking = FALSE
    /\ hcSnapshot = << >>
    /\ hcQueue = << >>
    /\ hcCurrent = NoToken
    /\ hcDetached = FALSE
    /\ roundRobinCursor = 0
    /\ last = [op |-> "constructor", arg |-> << >>, res |-> << >>,
               tokensBefore |-> {}, prev |-> NoPrev, before |-> NoEntry,
               earlier |-> << >>]
    /\ writes = NoWrites
    /\ ops = 0

NextLoads == ReloadFromDisk

SpecLoads == InitLoads /\ [][NextLoads]_vars

\* the record of the file that decides the entry of token: the last one
\* whose trimmed token it is
RawOf(token) ==
    LET idx == {i \in 1..Len(disk.tokens) : trim(disk.tokens[i].token) = token}
    IN disk.tokens[CHOOSE i \in idx : \A j \in idx : j <= i]

\* the record holds something that is not a number under consecutiveFailures
NonNumericFailures(raw) == "failuresJson" \in DOMAIN raw

NegativeFailures(raw) ==
    IF NonNumericFailures(raw) THEN FALSE ELSE raw.consecutiveFailures < 0

\* the pool a load leaves is the one the tolerant coercions give for the
\* file that was on disk
LoadedTolerantly ==
    /\ last'.res = "loaded"
    /\ disk.state \in {"corrupt", "no_tokens"} => entryMap' = << >>
    /\ disk.state = "ok" =>
           /\ MapTokens(entryMap') =
                  {trim(disk.tokens[i].token) : i \in 1..Len(disk.tokens)} \ {<< >>}
           /\ \A i \in 1..Len(entryMap') :
                  LET entry == entryMap'[i]
                      raw == RawOf(entry.token)
                  IN /\ raw.region \notin RegionCodes => entry.region = NoRegion
                     /\ raw.live \notin {"true", "false"} => entry.live = Undefined
                     /\ (NonNumericFailures(raw) \/ NegativeFailures(raw)) =>
                            entry.consecutiveFailures = 0

\* C30: loading never fails on bad content: from a file that is unparsable or
\* has no tokens array loadFromDisk throws nothing and leaves an empty pool;
\* records with an empty token are skipped, an invalid region string becomes
\* an absent region, a non-boolean live becomes undefined, and a non-numeric
\* or negative consecutiveFailures becomes 0.
C30_LoadTolerant ==
    [][last'.op = "reloadFromDisk" => LoadedTolerantly]_vars

\* the tolerance of the load for every record but one that holds the JSON
\* value true under consecutiveFailures
TolerantButForTrue ==
    [][(/\ last'.op = "reloadFromDisk"
        /\ \A i \in 1..Len(disk.tokens) :
               NonNumericFailures(disk.tokens[i]) =>
                   disk.tokens[i].failuresJson # "true") => LoadedTolerantly]_vars

\* C31: in every reachable state, also while a health-check pass interleaves
\* with setTokenEnabled, syncTokenCheckResult or removeTokens, an entry with
\* enabled = false does not have live = true.
C31_DisabledNeverLive ==
    \A i \in 1..Len(entryMap) :
        ~entryMap[i].enabled => entryMap[i].live # "true"

\* the same for every step but the answer of a liveness probe
DisabledNeverLiveButProbe ==
    [][(last'.op # "probe" /\ C31_DisabledNeverLive) => C31_DisabledNeverLive']_vars

\* the step turns the disabled pool entry t into an enabled one
Reenabled(t) ==
    /\ MapHas(entryMap, t)
    /\ MapHas(entryMap', t)
    /\ ~MapGet(entryMap, t).enabled
    /\ MapGet(entryMap', t).enabled

\* C32 as stated: an entry the operator has just disabled with
\* setTokenEnabled(token, false) is enabled again by no step but
\* setTokenEnabled(token, true): no health-check pass, no
\* syncTokenCheckResult call and no selection sets enabled back to true.
C32_OperatorDisableSticks ==
    [][\A t \in PoolTokens :
          (/\ last.op = "setTokenEnabled"
           /\ last.arg = <<t, FALSE>>
           /\ last.res = TRUE
           /\ Reenabled(t)) =>
              (last'.op = "setTokenEnabled" /\ last'.arg = <<t, TRUE>>)]_vars

\* C32: a disabled pool entry, disabled by the operator or otherwise, is
\* enabled again only by setTokenEnabled(token, true), by
\* syncTokenCheckResult(token, true) or by a load of the pool file: no
\* health-check pass, no syncTokenCheckResult(token, false) and no selection
\* sets its enabled flag back to true.
C32_ReenabledOnlyBy ==
    [][\A t \in PoolTokens :
          Reenabled(t) =>
              \/ last'.op = "setTokenEnabled" /\ last'.arg = <<t, TRUE>>
              \/ last'.op = "syncTokenCheckResult" /\ last'.arg = <<t, TRUE>>
              \/ last'.op \in {"init", "reloadFromDisk"}]_vars

\* syncTokenCheckResult(a, true) enabled the entry a again, which the
\* operator had disabled with setTokenEnabled(a, false)
C32_Witness ==
    /\ last.op = "syncTokenCheckResult"
    /\ last.arg = <<TokA, TRUE>>
    /\ last.res = TRUE
    /\ ~cfg.autoDisableEnabled
    /\ ~last.before.enabled
    /\ last.before.live = "false"
    /\ last.before.lastError = Undefined
    /\ last.before.lastCheckedAt = 0
    /\ MapGet(entryMap, TokA).enabled

----------------------------------------------------------------------------
\* The operator's switch and the selections, on a pool whose one entry is
\* enabled, live and region-assigned, with no health check.

\* the pool after addTokens(["a"], {defaultRegion: "us"}) and
\* syncTokenCheckResult("a", true)
LivePool == MapSet(OnePool, TokA, SyncedEntry(MapGet(OnePool, TokA), TRUE))

InitToggle ==
    /\ cfg \in {c \in Configs : c.enabled}
    /\ entryMap = LivePool
    /\ disk = [state |-> "ok", tokens |-> entryMap]
    /\ initialized = TRUE
    /\ timerStarted = (cfg.healthCheckIntervalMs > 0)
    /\ initLoading = FALSE
    /\ initLoads = 1
    /\ timersSet = (IF cfg.healthCheckIntervalMs > 0 THEN 1 ELSE 0)
    /\ healthChecking = FALSE
    /\ hcSnapshot = << >>
    /\ hcQueue = << >>
    /\ hcCurrent = NoToken
    /\ hcDetached = FALSE
    /\ roundRobinCursor = 0
    /\ last = [op |-> "constructor", arg |-> << >>, res |-> << >>,
               tokensBefore |-> {}, prev |-> NoPrev, before |-> NoEntry,
               earlier |-> << >>]
    /\ writes = NoWrites
    /\ ops = 0

NextToggle ==
    \/ \E token \in PoolTokens, enabled \in BOOLEAN : SetTokenEnabled(token, enabled)
    \/ PickToken
    \/ \E req \in Requests : PickTokenForRequest(req)

SpecToggle == InitToggle /\ [][NextToggle]_vars

\* the request without headers for an image of model m1
AmbientRequest == Request(Absent, Absent, "m1", "image", {})

\* pickToken and pickTokenForRequest can return the pool entry of token
Selectable(token) ==
    /\ token \in SeqElems(getAllTokens)
    /\ \E i \in 1..Len(ReqMatched(AmbientRequest)) :
           ReqMatched(AmbientRequest)[i].token = token

\* the entry the runs start with is selectable
SelectableAtStart == (ops = 0) => Selectable(TokA)

\* C33: disable then enable restores eligibility: for a pool entry that is
\* enabled, live, region-assigned and selectable by pickToken and
\* pickTokenForRequest, setTokenEnabled(token, false) followed by
\* setTokenEnabled(token, true), with no health check in between, leaves the
\* entry selectable by the same calls.
C33_DisableEnableRestores ==
    (/\ last.op = "setTokenEnabled"
     /\ last.arg = <<TokA, TRUE>>
     /\ last.res = TRUE
     /\ ~last.before.enabled) => Selectable(TokA)

\* the step is an addTokens call that threw
AddThrew == last'.op = "addTokens" /\ last'.res.threw

\* C34: addTokens is all-or-nothing on failure: when the call throws (an
\* input lacks a valid region, or a token carries a legacy region prefix),
\* the in-memory pool and the persisted file are the same as before the call,
\* whatever the position of the offending token in the input list.
C34_AddAllOrNothing ==
    [][AddThrew => (entryMap' = entryMap /\ disk' = disk)]_vars

\* an addTokens call that throws for a missing region changes nothing, and
\* one that throws for a prefixed token leaves the file alone
AddThrewKeeps ==
    [][AddThrew =>
          /\ disk' = disk
          /\ normalizeAddTokens(last'.arg.rawTokens, last'.arg.defaultRegion).threw =>
                 entryMap' = entryMap]_vars

\* C35: when the pool is disabled by configuration, the in-memory pool stays
\* empty after any sequence of public operations, so that no selection
\* returns a token taken from the pool.
C35_DisabledPoolStaysEmpty ==
    ~cfg.enabled =>
        /\ entryMap = << >>
        /\ PickSucceeded => ~MapHas(entryMap, last.res.token)

\* with the pool disabled, no operation but reloadFromDisk changes the
\* in-memory pool
DisabledPoolChangedOnlyByReload ==
    [][(~cfg.enabled /\ last'.op # "reloadFromDisk") => entryMap' = entryMap]_vars

\* the step is a call of one of the three selection operations
SelectionStep ==
    last'.op \in {"pickToken", "pickTokenFromAuthorization", "pickTokenForRequest"}

\* C36: selection is read-only on the pool: pickToken,
\* pickTokenFromAuthorization and pickTokenForRequest change no field of any
\* pool entry and do not write the file; the only state they may change is
\* the round-robin cursor, which is left unchanged when pickTokenForRequest
\* returns an error, when pickToken returns null, and under the random
\* strategy.
C36_SelectionReadOnly ==
    [][SelectionStep =>
          /\ entryMap' = entryMap
          /\ disk' = disk
          /\ UNCHANGED <<cfg, writes, initVars, hcVars>>
          /\ (last'.op = "pickTokenForRequest" /\ last'.res.error # NoError) =>
                 roundRobinCursor' = roundRobinCursor
          /\ (last'.op = "pickToken" /\ last'.res = NoToken) =>
                 roundRobinCursor' = roundRobinCursor
          /\ cfg.pickStrategy = "random" => roundRobinCursor' = roundRobinCursor]_vars

\* under round_robin a pick had moved the cursor to 1, and a
\* pickTokenForRequest call that returned an error left it there
C36_Witness ==
    /\ cfg.pickStrategy = "round_robin"
    /\ last.op = "pickTokenForRequest"
    /\ last.res.error # NoError
    /\ entryMap # << >>
    /\ roundRobinCursor = 1

----------------------------------------------------------------------------
\* Passes that end, with a persist that can fail: every awaited collaborator
\* call returns or throws.

\* the pass ends with a persist that throws: the file is left as it was or
\* unreadable, and the finally clause clears the in-progress flag
FinishHealthCheckFails ==
    /\ healthChecking
    /\ hcCurrent = NoToken
    /\ disk' \in {disk, [state |-> "corrupt", tokens |-> << >>]}
    /\ healthChecking' = FALSE
    /\ hcSnapshot' = << >>
    /\ last' = Done("healthCheckDone", hcSnapshot, "persist_failed")
    /\ UNCHANGED <<cfg, writes, entryMap, initVars, hcQueue, hcCurrent,
                   hcDetached, roundRobinCursor, ops>>

\* the pool after addTokens(["a", "c"], {defaultRegion: "us"})
TwoPool ==
    AddLoop(<< >>,
            normalizeAddTokens(<<StringItem(TokA), StringItem(TokC)>>, Str(us)).items,
            0).map

InitLive ==
    /\ cfg \in {c \in Configs : c.enabled /\ c.autoDisableEnabled}
    /\ entryMap = TwoPool
    /\ disk = [state |-> "ok", tokens |-> entryMap]
    /\ initialized = TRUE
    /\ timerStarted = (cfg.healthCheckIntervalMs > 0)
    /\ initLoading = FALSE
    /\ initLoads = 1
    /\ timersSet = (IF cfg.healthCheckIntervalMs > 0 THEN 1 ELSE 0)
    /\ healthChecking = FALSE
    /\ hcSnapshot = << >>
    /\ hcQueue = << >>
    /\ hcCurrent = NoToken
    /\ hcDetached = FALSE
    /\ roundRobinCursor = 0
    /\ last = [op |-> "constructor", arg |-> << >>, res |-> << >>,
               tokensBefore |-> {}, prev |-> NoPrev, before |-> NoEntry,
               earlier |-> << >>]
    /\ writes = NoWrites
    /\ ops = 0

\* an awaited liveness probe answers
ProbeAnswers ==
    \E probe \in ProbeOutcomes, refresh \in RefreshOutcomes, credit \in CreditOutcomes :
        ProbeReturns(probe, refresh, credit)

\* the end-of-pass persist returns or throws
PersistAnswers == FinishHealthCheck \/ FinishHealthCheckFails

NextLive ==
    \/ RunHealthCheck
    \/ ProbeAnswers
    \/ FinishHealthCheck
    \/ FinishHealthCheckFails
    \/ SetTokenEnabled(TokA, FALSE)

SpecLive ==
    /\ InitLive
    /\ [][NextLive]_vars
    /\ WF_vars(ProbeAnswers)
    /\ WF_vars(PersistAnswers)

\* C37: every health-check pass that starts eventually ends and clears the
\* in-progress flag, provided each collaborator call returns or throws, also
\* when a probe throws and when the end-of-pass persist fails, so that no
\* later runHealthCheck call is blocked forever by a finished or failed pass.
C37_PassEnds == healthChecking ~> ~healthChecking

\* a pass in which a probe threw ended with a persist that failed, and the
\* in-progress flag is clear
C37_Witness ==
    /\ last.op = "healthCheckDone"
    /\ last.res = "persist_failed"
    /\ ~healthChecking
    /\ \E i \in 1..Len(entryMap) : entryMap[i].lastError = "probe_error"

\* C38: for entries created by addTokens and changed only through the public
\* operations, in any interleaving of health checks with
\* syncTokenCheckResult and setTokenEnabled, live = true implies
\* consecutiveFailures = 0 in every state between the operations'
\* synchronous steps.
C38_LiveHasNoFailures ==
    \A i \in 1..Len(entryMap) :
        entryMap[i].live = "true" => entryMap[i].consecutiveFailures = 0

\* a probe answered live for the entry a, which a call made while the probe
\* was awaited had disabled: a is live with no failures
C38_Witness ==
    /\ last.op = "probe"
    /\ last.arg = <<TokA, "live">>
    /\ last.res = FALSE
    /\ MapHas(entryMap, TokA)
    /\ ~MapGet(entryMap, TokA).enabled
    /\ MapGet(entryMap, TokA).live = "true"
    /\ MapGet(entryMap, TokA).consecutiveFailures = 0

====
